---- MODULE Spec2Model ----
(***************************************************************************)
(* MeatMath Pro: the organization-scoped access control of the Express API *)
(* (server/routes.ts) over the storage layer (server/storage.ts).          *)
(*                                                                         *)
(* One request is in flight at a time; every `await storage.X(...)` of a   *)
(* handler is one step, so membership changes made by other flows can fall *)
(* between a handler's lookup and its write.  Every store call can throw,  *)
(* which the handler's catch block answers with 500.                       *)
(***************************************************************************)
EXTENDS Integers, Sequences, FiniteSets, TLC

\* ------------------------------------------------------------------ bounds
\* rows of organization_members
MaxMembers == 1
\* rows of organization_members under SpecTenants
MaxTenantMembers == 2
\* rows of the business tables (customers, processing records, inventory
\* items, invoices, cut instructions, species) taken together
MaxRows == 1
\* customer ids a request can name
MaxCustomerId == 1
\* requests one rate-limit window sees under SpecAdminLimit (the test of the
\* species limiter sends 12)
MaxAdminBurst == 12
\* requests one rate-limit window sees under SpecApiLimit (the test of the
\* API limiter sends 15)
MaxApiBurst == 15
\* requests one rate-limit window sees under SpecValidation
MaxValidated == 2
\* tokens of a string handed to the sanitizer under SpecSanitize
MaxLen == 4
\* items added to one sale of the POS modal
MaxAdded == 2
\* calculateTotals timeouts pending at a time
MaxTimers == 2

\* ------------------------------------------------------------- universes
Users == {"alice", "bob"}
\* organizations.id is a random uuid: the ids in the order they are handed out
OrgIdSeq == <<"org1", "org2">>
OrgIds == { OrgIdSeq[i] : i \in 1..Len(OrgIdSeq) }
\* JavaScript null / undefined
Null == "<null>"
\* organization_members.role is varchar(50): the four documented roles, one
\* string outside them, and the empty string
RoleStrings == {"owner", "admin", "editor", "viewer", "guest", ""}
\* the roles the schema comment documents
Roles == {"owner", "admin", "editor", "viewer"}

\* the tables every row of which carries organizationId and is created by a
\* POST route guarded by the write check
RecordTables == {"processingRecords", "inventoryItems", "invoices", "cutInstructions"}

VARIABLES
    organizations,   \* set of ids of the rows of table organizations
    members,         \* table organization_members, in insertion order
    customers,       \* table customers, in insertion order (id = index)
    records,         \* rows of the other business tables: [table,
                     \* organizationId, isActive, status]
    species,         \* number of species rows created through POST /api/species
    req,             \* the request being handled, or the last one answered
    limits,          \* the rate limiters' stores: hits per client in the window
    seen,            \* per client, the requests of the current window: how
                     \* many were sent, were answered 429, entered the handler
    env,             \* process.env.NODE_ENV
    calc,            \* the yield calculation under way: inputs and results
    pos              \* the POS modal: its React state, form values, timers
                     \* and the sale mutation

vars == <<organizations, members, customers, records, species, req, limits, seen,
          env, calc, pos>>

business == <<customers, records, species>>

\* number of business rows stored
Rows == Len(customers) + Len(records) + species

\* ------------------------------------------------------------------ routes
ReadRoutes == {
    "GET /api/organizations/:id",
    "GET /api/dashboard/:orgId",
    "GET /api/customers/:orgId",
    "GET /api/processing-records/:orgId",
    "GET /api/inventory/:orgId",
    "GET /api/invoices/:orgId",
    "GET /api/cut-instructions/:orgId" }

CreateRoutes == {
    "POST /api/customers",
    "POST /api/processing-records",
    "POST /api/inventory",
    "POST /api/invoices",
    "POST /api/cut-instructions" }

CustomerByIdRoutes == { "PUT /api/customers/:id", "DELETE /api/customers/:id" }

WriteRoutes == CreateRoutes \cup CustomerByIdRoutes

\* the storage read a read route performs once the role check has passed
ReadCall(route) ==
    CASE route = "GET /api/organizations/:id" -> "getOrganization"
      [] route = "GET /api/dashboard/:orgId" -> "getDashboardMetrics"
      [] route = "GET /api/customers/:orgId" -> "getCustomers"
      [] route = "GET /api/processing-records/:orgId" -> "getProcessingRecords"
      [] route = "GET /api/inventory/:orgId" -> "getInventoryItems"
      [] route = "GET /api/invoices/:orgId" -> "getInvoices"
      [] route = "GET /api/cut-instructions/:orgId" -> "getCutInstructions"

\* the storage insert a create route performs once the role check has passed
CreateCall(route) ==
    CASE route = "POST /api/customers" -> "createCustomer"
      [] route = "POST /api/processing-records" -> "createProcessingRecord"
      [] route = "POST /api/inventory" -> "createInventoryItem"
      [] route = "POST /api/invoices" -> "createInvoice"
      [] route = "POST /api/cut-instructions" -> "createCutInstruction"

CreateTable(route) ==
    CASE route = "POST /api/processing-records" -> "processingRecords"
      [] route = "POST /api/inventory" -> "inventoryItems"
      [] route = "POST /api/invoices" -> "invoices"
      [] route = "POST /api/cut-instructions" -> "cutInstructions"

BusinessCalls ==
    { ReadCall(r) : r \in ReadRoutes } \cup { CreateCall(r) : r \in CreateRoutes }
        \cup { "getCustomer", "updateCustomer", "deleteCustomer", "createSpecies" }

BusinessWrites ==
    { CreateCall(r) : r \in CreateRoutes }
        \cup { "updateCustomer", "deleteCustomer", "createSpecies" }

\* the message of each handler's catch block
FailureMessage(route) ==
    CASE route = "POST /api/organizations" -> "Failed to create organization"
      [] route = "GET /api/organizations/:id" -> "Failed to fetch organization"
      [] route = "GET /api/dashboard/:orgId" -> "Failed to fetch dashboard metrics"
      [] route = "GET /api/species" -> "Failed to fetch species"
      [] route = "POST /api/species" -> "Failed to create species"
      [] route = "GET /api/customers/:orgId" -> "Failed to fetch customers"
      [] route = "POST /api/customers" -> "Failed to create customer"
      [] route = "PUT /api/customers/:id" -> "Failed to update customer"
      [] route = "DELETE /api/customers/:id" -> "Failed to delete customer"
      [] route = "GET /api/processing-records/:orgId" -> "Failed to fetch processing records"
      [] route = "POST /api/processing-records" -> "Failed to create processing record"
      [] route = "GET /api/inventory/:orgId" -> "Failed to fetch inventory items"
      [] route = "POST /api/inventory" -> "Failed to create inventory item"
      [] route = "GET /api/invoices/:orgId" -> "Failed to fetch invoices"
      [] route = "POST /api/invoices" -> "Failed to create invoice"
      [] route = "GET /api/cut-instructions/:orgId" -> "Failed to fetch cut instructions"
      [] route = "POST /api/cut-instructions" -> "Failed to create cut instruction"

AccessDenied == "Access denied"
SpeciesAccessDenied == "Access denied. Only organization owners and admins can create species."

\* ----------------------------------------------------------------- storage
\* a query that also matches deactivated rows
ActiveRows_deactivatedToo(m, userId, orgId) ==
    { i \in 1..Len(m) :
        /\ m[i].userId = userId
        /\ m[i].organizationId = orgId }

\* rows of organization_members matching userId, organizationId and isActive = true
ActiveRows(m, userId, orgId) ==
    { i \in 1..Len(m) :
        /\ m[i].userId = userId
        /\ m[i].organizationId = orgId
        /\ m[i].isActive = TRUE }

\* getUserRole without the userId condition
getUserRole_anyUser(m, userId, orgId) ==
    LET rows == { i \in 1..Len(m) : m[i].organizationId = orgId /\ m[i].isActive = TRUE }
    IN  IF rows = {} THEN { Null }
        ELSE { IF m[i].role = "" THEN Null ELSE m[i].role : i \in rows }

\* getUserRole without the organizationId condition
getUserRole_anyOrg(m, userId, orgId) ==
    LET rows == { i \in 1..Len(m) : m[i].userId = userId /\ m[i].isActive = TRUE }
    IN  IF rows = {} THEN { Null }
        ELSE { IF m[i].role = "" THEN Null ELSE m[i].role : i \in rows }

\* getUserRole without the isActive condition
getUserRole_anyActivity(m, userId, orgId) ==
    LET rows == { i \in 1..Len(m) : m[i].userId = userId /\ m[i].organizationId = orgId }
    IN  IF rows = {} THEN { Null }
        ELSE { IF m[i].role = "" THEN Null ELSE m[i].role : i \in rows }

\* DatabaseStorage.getUserRole: `const [member] = await db.select()...` takes
\* the first row of a query without ORDER BY, so any matching row may be the
\* one; `member?.role || null` maps no row and the empty string to null.
\* The set of values the call can return.
getUserRole(m, userId, orgId) ==
    LET rows == ActiveRows(m, userId, orgId)
    IN  IF rows = {} THEN { Null }
        ELSE { IF m[i].role = "" THEN Null ELSE m[i].role : i \in rows }

\* DatabaseStorage.getUserOrganizations: organizations INNER JOIN
\* organization_members, one result row per active membership row of userId.
\* The indexes of the membership rows that produce a result row.
getUserOrganizations(m, orgs, userId) ==
    { i \in 1..Len(m) :
        /\ m[i].userId = userId
        /\ m[i].isActive = TRUE
        /\ m[i].organizationId \in orgs }

\* a lookup by primary key that skips deactivated customers
getCustomer_activeOnly(c, id) ==
    IF id \in 1..Len(c) /\ c[id].isActive = TRUE THEN << c[id] >> ELSE << >>

\* DatabaseStorage.getCustomer: by primary key, whatever isActive is; the
\* rows of the query, of which `const [customer]` takes the first
getCustomer(c, id) == IF id \in 1..Len(c) THEN << c[id] >> ELSE << >>

\* DatabaseStorage.updateCustomer: .set({ ...customer, updatedAt }) writes
\* every field the parsed body carries
updateCustomer(c, id, body) ==
    [c EXCEPT ![id] =
        [ organizationId |-> IF body.organizationId = Null THEN @.organizationId
                             ELSE body.organizationId,
          isActive |-> @.isActive ]]

\* DatabaseStorage.deleteCustomer: soft delete
deleteCustomer(c, id) == [c EXCEPT ![id].isActive = FALSE]

\* ORDER BY created_at DESC: the rows in the reverse of insertion order
Reverse(rows) == [ i \in 1..Len(rows) |-> rows[Len(rows) + 1 - i] ]

\* DatabaseStorage.getOrganization: the rows with that id, of which
\* `const [organization]` takes the first
getOrganization(orgs, id) == IF id \in orgs THEN << id >> ELSE << >>

\* a customer list that is not narrowed to the organization
getCustomers_allTenants(c, orgId) ==
    Reverse(SelectSeq(c, LAMBDA row : row.isActive = TRUE))

\* DatabaseStorage.getCustomers: organizationId = orgId and isActive = true,
\* newest first
getCustomers(c, orgId) ==
    Reverse(SelectSeq(c, LAMBDA row :
        row.organizationId = orgId /\ row.isActive = TRUE))

\* DatabaseStorage.getProcessingRecords: organizationId = orgId (ordered by
\* processingDate, a column the rows here do not carry)
getProcessingRecords(r, orgId) ==
    SelectSeq(r, LAMBDA row :
        row.table = "processingRecords" /\ row.organizationId = orgId)

\* DatabaseStorage.getCutInstructions: organizationId = orgId, newest first
getCutInstructions(r, orgId) ==
    Reverse(SelectSeq(r, LAMBDA row :
        row.table = "cutInstructions" /\ row.organizationId = orgId))

\* DatabaseStorage.getInventoryItems: organizationId = orgId and isActive =
\* true (ordered by name, a column the rows here do not carry)
getInventoryItems(r, orgId) ==
    SelectSeq(r, LAMBDA row :
        /\ row.table = "inventoryItems"
        /\ row.organizationId = orgId
        /\ row.isActive = TRUE)

\* DatabaseStorage.getInvoices: organizationId = orgId, newest first
getInvoices(r, orgId) ==
    Reverse(SelectSeq(r, LAMBDA row :
        row.table = "invoices" /\ row.organizationId = orgId))

\* DatabaseStorage.getDashboardMetrics: four aggregate queries.  For each
\* metric, the rows its count(), sum() or avg() is taken over.
getDashboardMetrics(c, r, orgId) ==
    [ totalAnimals |-> SelectSeq(r, LAMBDA row :
          row.table = "processingRecords" /\ row.organizationId = orgId),
      revenue |-> SelectSeq(r, LAMBDA row :
          /\ row.table = "invoices"
          /\ row.organizationId = orgId
          /\ row.status = "paid"),
      averageYield |-> SelectSeq(r, LAMBDA row :
          row.table = "processingRecords" /\ row.organizationId = orgId),
      activeCustomers |-> SelectSeq(c, LAMBDA row :
          row.organizationId = orgId /\ row.isActive = TRUE) ]

\* ------------------------------------------------------ the role checks
\* a read check that turns viewers away
ReadDenied_viewer(role) == role = Null \/ role = "viewer"

\* `!role` of the read routes
ReadDenied(role) == role = Null

\* a write check that turns away the roles it knows to be read-only
WriteDenied_unknownWrites(role) == role = Null \/ role = "viewer"

\* a write check whose list has viewer in it
WriteDenied_viewerWrites(role) ==
    role = Null \/ role \notin {"owner", "admin", "editor", "viewer"}

\* `!role || !['owner', 'admin', 'editor'].includes(role)` of the write routes
WriteDenied(role) == role = Null \/ role \notin {"owner", "admin", "editor"}

\* an admin check that accepts editors
IsAdminRole_editor(role) == role = "owner" \/ role = "admin" \/ role = "editor"

\* `role === 'owner' || role === 'admin'` of POST /api/species
IsAdminRole(role) == role = "owner" \/ role = "admin"

\* -------------------------------------------------------------- middleware
\* the clients, by the address express-rate-limit keys its counters on
Clients == {"ip1", "ip2"}

\* createRateLimiter(windowMs, max, message): max and message of each limiter
ApiMax == 1000
AdminMax == 10
ApiLimitMessage == "Too many API requests, please try again later."
AdminLimitMessage == "Too many admin operations, please try again later."

\* a limiter store with no hits, as it is when a window starts
NoHits == [ ip \in Clients |-> 0 ]

\* nothing seen of any client in the window
NoneSeen == [ ip \in Clients |-> [ sent |-> 0, limited |-> 0, handled |-> 0 ] ]

\* JSON values of a request body: a string is the sequence of its pieces
Str(s) == [ t |-> "string", v |-> s ]
Arr(xs) == [ t |-> "array", v |-> xs ]
Obj(f) == [ t |-> "object", v |-> f ]

\* the token at position i of s, or the end of the string
At(s, i) == IF i \in 1..Len(s) THEN s[i] ELSE "<end>"

\* ---- sanitizeInput
\* The pieces a string is cut into are such that every match of the three
\* expressions starts and ends at a piece boundary: "<script>", "</script>",
\* "<scr" + "ipt>" (which read "<script>" when adjacent), "java" + "script:"
\* (which read "javascript:" when adjacent), "onclick=", " " and other text.
\* The expressions ignore case, so a piece stands for every spelling of it.

\* the number of pieces of the opening tag `<script[^>]*>` at the head of s,
\* 0 if there is none
OpenTagLen(s) ==
    IF At(s, 1) = "<script>" THEN 1
    ELSE IF At(s, 1) = "<scr" /\ At(s, 2) = "ipt>" THEN 2
    ELSE 0

RECURSIVE RemoveScriptBlocks(_)
\* .replace(/<script[^>]*>[\s\S]*?<\/script>/gi, ''): from left to right,
\* an opening tag up to the first closing tag after it is dropped; an opening
\* tag that no closing tag follows stays
RemoveScriptBlocks(s) ==
    IF s = << >> THEN << >>
    ELSE LET n == OpenTagLen(s)
             closes == { j \in (n + 1)..Len(s) : s[j] = "</script>" }
         IN  IF n > 0 /\ closes # {}
             THEN LET j == CHOOSE c \in closes : \A d \in closes : c <= d
                  IN  RemoveScriptBlocks(SubSeq(s, j + 1, Len(s)))
             ELSE << s[1] >> \o RemoveScriptBlocks(Tail(s))

RECURSIVE RemoveJavascript(_)
\* .replace(/javascript:/gi, ''): one pass, left to right
RemoveJavascript(s) ==
    IF s = << >> THEN << >>
    ELSE IF At(s, 1) = "java" /\ At(s, 2) = "script:"
         THEN RemoveJavascript(SubSeq(s, 3, Len(s)))
         ELSE << s[1] >> \o RemoveJavascript(Tail(s))

\* .replace(/on\w+\s*=/gi, '')
RemoveHandlers(s) == SelectSeq(s, LAMBDA piece : piece # "onclick=")

RECURSIVE Trim(_)
\* .trim()
Trim(s) ==
    IF s = << >> THEN << >>
    ELSE IF s[1] = " " THEN Trim(Tail(s))
    ELSE IF s[Len(s)] = " " THEN Trim(SubSeq(s, 1, Len(s) - 1))
    ELSE s

\* the string branch of sanitizeObject: the three replacements, each applied
\* once to the result of the one before, then trim
sanitizeString(s) ==
    Trim(RemoveHandlers(RemoveJavascript(RemoveScriptBlocks(s))))

RECURSIVE sanitizeObject(_)
\* sanitizeObject: strings are sanitized, arrays and objects are walked,
\* anything else is returned as it is
sanitizeObject(obj) ==
    CASE obj.t = "string" -> Str(sanitizeString(obj.v))
      [] obj.t = "array" -> Arr([ i \in 1..Len(obj.v) |-> sanitizeObject(obj.v[i]) ])
      [] obj.t = "object" -> Obj([ key \in DOMAIN obj.v |-> sanitizeObject(obj.v[key]) ])
      [] OTHER -> obj

\* ---- sqlInjectionProtection
\* The pieces of a string are its SQL words, " " and punctuation, so that the
\* four expressions match at piece boundaries.
SqlKeywords ==
    { "SELECT", "INSERT", "UPDATE", "DELETE", "DROP", "CREATE", "ALTER", "EXEC", "EXECUTE" }

\* the first position from i on that holds no whitespace
SkipSpace(s, i) ==
    CHOOSE j \in i..(Len(s) + 1) :
        /\ At(s, j) # " "
        /\ \A k \in i..(j - 1) : s[k] = " "

\* /(;\s*(SELECT|INSERT|UPDATE|DELETE|DROP|CREATE|ALTER|EXEC|EXECUTE)\s)/i at i
StackedQueryAt(s, i) ==
    /\ s[i] = ";"
    /\ LET j == SkipSpace(s, i + 1)
       IN  At(s, j) \in SqlKeywords /\ At(s, j + 1) = " "

\* /(UNION\s+ALL\s+SELECT|UNION\s+SELECT)/i at i
UnionAt(s, i) ==
    /\ s[i] = "UNION"
    /\ At(s, i + 1) = " "
    /\ LET j == SkipSpace(s, i + 1)
       IN  \/ At(s, j) = "SELECT"
           \/ /\ At(s, j) = "ALL"
              /\ At(s, j + 1) = " "
              /\ At(s, SkipSpace(s, j + 1)) = "SELECT"

\* /(OR\s+1\s*=\s*1|AND\s+1\s*=\s*1)(\s+--|#)/i at i
BooleanWithCommentAt(s, i) ==
    /\ s[i] \in {"OR", "AND"}
    /\ At(s, i + 1) = " "
    /\ LET a == SkipSpace(s, i + 1)
           eq == SkipSpace(s, a + 1)
           b == SkipSpace(s, eq + 1)
       IN  /\ At(s, a) = "1"
           /\ At(s, eq) = "="
           /\ At(s, b) = "1"
           /\ \/ At(s, b + 1) = "#"
              \/ At(s, b + 1) = " " /\ At(s, SkipSpace(s, b + 1)) = "--"

\* /(INFORMATION_SCHEMA\.TABLES|SYS\.TABLES)/i at i
SchemaEnumerationAt(s, i) ==
    s[i] \in { "INFORMATION_SCHEMA.TABLES", "SYS.TABLES" }

\* checkForSQLInjection: sqlInjectionPatterns.some(pattern => pattern.test(value))
checkForSQLInjection(value) ==
    /\ value.t = "string"
    /\ \E i \in 1..Len(value.v) :
        \/ StackedQueryAt(value.v, i)
        \/ UnionAt(value.v, i)
        \/ BooleanWithCommentAt(value.v, i)
        \/ SchemaEnumerationAt(value.v, i)

RECURSIVE scanObject(_)
\* scanObject: arrays and objects are walked, anything else is checked
scanObject(obj) ==
    CASE obj.t = "array" -> \E i \in 1..Len(obj.v) : scanObject(obj.v[i])
      [] obj.t = "object" -> \E key \in DOMAIN obj.v : scanObject(obj.v[key])
      [] OTHER -> checkForSQLInjection(obj)

\* ---- the rate limiters
\* express-rate-limit counts the request for its client, then answers 429
\* when the count is over max
Hit(store, ip) == [ store EXCEPT ![ip] = @ + 1 ]

\* a limiter that lets the request at max + 1 through
OverLimit_offByOne(store, ip, max) == store[ip] > max + 1

OverLimit(store, ip, max) == store[ip] > max

RECURSIVE SumOver(_, _)
SumOver(f, S) ==
    IF S = {} THEN 0
    ELSE LET x == CHOOSE y \in S : TRUE IN f[x] + SumOver(f, S \ {x})

\* ---- the schemas of createInsertSchema
\* the keys of body whose value is a string
StringKeys(body) == { key \in DOMAIN body.v : body.v[key].t = "string" }

\* insertOrganizationSchema: name is the one column that is NOT NULL without
\* a default; every column is a string or optional
insertOrganizationSchema(body) == "name" \in StringKeys(body)

\* insertSpeciesSchema: name, category and the two ratios (decimal columns,
\* strings to zod) are NOT NULL without a default
insertSpeciesSchema(body) ==
    { "name", "category", "liveToHangingRatio", "hangingToRetailRatio" }
        \subseteq StringKeys(body)

\* ---------------------------------------------------------------- requests
Idle ==
    [ route |-> Null, userId |-> Null, orgId |-> Null, customerId |-> 0,
      ip |-> Null, body |-> Null, query |-> Null,
      pc |-> "idle", existing |-> <<>>,
      pending |-> <<>>, hasAdminRole |-> FALSE, status |-> 0, message |-> Null,
      result |-> <<>>, calls |-> <<>>, failedAt |-> Null,
      error |-> [ message |-> Null, stack |-> Null ] ]

\* the middleware a request passes before its handler, and the handler's
\* schema.parse(req.body), none of which is a store call
Stages == { "sanitizeInput", "sqlInjectionProtection", "apiRateLimiter",
            "adminRateLimiter", "isAuthenticated", "parse" }

\* the handler is at an awaited store call
InFlight == req.pc \notin {"idle", "done"} \cup Stages

\* res.status(s).json({ message }) / res.json(...)
Respond(r, s, msg) == [r EXCEPT !.pc = "done", !.status = s, !.message = msg]

Called(r, call) == [r EXCEPT !.calls = Append(@, call)]

\* no yield calculation has been asked for
NoCalculation == [ pc |-> "idle" ]

\* the POS modal is not mounted
PosClosed == [ pc |-> "closed" ]

Init ==
    /\ organizations = {}
    /\ members = <<>>
    /\ customers = <<>>
    /\ records = << >>
    /\ species = 0
    /\ req = Idle
    /\ limits = [ apiRateLimiter |-> NoHits, adminRateLimiter |-> NoHits ]
    /\ seen = [ apiRateLimiter |-> NoneSeen, adminRateLimiter |-> NoneSeen ]
    /\ env = Null
    /\ calc = NoCalculation
    /\ pos = PosClosed

\* the requests of all clients in the current window of limiter name
SentInWindow(name) == SumOver([ ip \in Clients |-> seen[name][ip].sent ], Clients)

\* a request arrives: express runs the handler up to its first await
Begin(route, userId, orgId, customerId, pc) ==
    [Idle EXCEPT !.route = route, !.userId = userId, !.orgId = orgId,
                 !.customerId = customerId, !.pc = pc]

CanReceive == req.pc \in {"idle", "done"}

\* a catch block that lets a create request through when its lookup threw
Catch_failOpen(r) ==
    IF r.route \in CreateRoutes /\ r.pc = "getUserRole"
    THEN [Called(r, r.pc) EXCEPT !.pc = CreateCall(r.route), !.failedAt = r.pc]
    ELSE [Respond(Called(r, r.pc), 500, FailureMessage(r.route)) EXCEPT !.failedAt = r.pc]

\* the handler's catch block: console.error, res.status(500).json({ message })
Catch(r) ==
    [Respond(Called(r, r.pc), 500, FailureMessage(r.route)) EXCEPT !.failedAt = r.pc]

\* any awaited store call rejects (store unreachable, constraint violated)
StoreCallThrows ==
    /\ InFlight
    /\ req' = Catch(req)
    /\ UNCHANGED <<organizations, members, customers, records, species, limits, seen, env, calc, pos>>

\* ---------------------------------------------- POST /api/organizations
PostOrganizations_Receive ==
    /\ CanReceive
    /\ Cardinality(organizations) < Len(OrgIdSeq)
    /\ \E u \in Users :
        req' = Begin("POST /api/organizations", u, Null, 0, "createOrganization")
    /\ UNCHANGED <<organizations, members, customers, records, species, limits, seen, env, calc, pos>>

\* storage.createOrganization(orgData)
PostOrganizations_createOrganization ==
    /\ req.route = "POST /api/organizations"
    /\ req.pc = "createOrganization"
    /\ Cardinality(organizations) < Len(OrgIdSeq)
    /\ LET id == OrgIdSeq[Cardinality(organizations) + 1]
       IN  /\ organizations' = organizations \cup {id}
           /\ req' = [Called(req, "createOrganization") EXCEPT
                        !.orgId = id, !.pc = "addOrganizationMember"]
    /\ UNCHANGED <<members, customers, records, species, limits, seen, env, calc, pos>>

\* storage.addOrganizationMember({ organizationId, userId, role: 'owner', joinedAt })
addOrganizationMember(m, member) == Append(m, member)

PostOrganizations_addOrganizationMember(cap) ==
    /\ req.route = "POST /api/organizations"
    /\ req.pc = "addOrganizationMember"
    /\ Len(members) < cap
    /\ members' = addOrganizationMember(members,
            [ organizationId |-> req.orgId, userId |-> req.userId,
              role |-> "owner", isActive |-> TRUE ])
    /\ req' = Respond(Called(req, "addOrganizationMember"), 200, Null)
    /\ UNCHANGED <<organizations, customers, records, species, limits, seen, env, calc, pos>>

\* ------------------------------------------------------- the read routes
ReadRoute_Receive(routes) ==
    /\ CanReceive
    /\ \E route \in routes, u \in Users, o \in OrgIds :
        req' = Begin(route, u, o, 0, "getUserRole")
    /\ UNCHANGED <<organizations, members, customers, records, species, limits, seen, env, calc, pos>>

\* const role = await storage.getUserRole(userId, orgId);
\* if (!role) return res.status(403).json({ message: "Access denied" });
ReadRoute_getUserRole(route) ==
    /\ req.route = route
    /\ req.pc = "getUserRole"
    /\ \E role \in getUserRole(members, req.userId, req.orgId) :
        LET r == Called(req, "getUserRole")
        IN  req' = IF ReadDenied(role)
                   THEN Respond(r, 403, AccessDenied)
                   ELSE [r EXCEPT !.pc = ReadCall(route)]
    /\ UNCHANGED <<organizations, members, customers, records, species, limits, seen, env, calc, pos>>

\* what the storage read of a read route returns for orgId
ReadResult(route, orgId) ==
    CASE route = "GET /api/organizations/:id" -> getOrganization(organizations, orgId)
      [] route = "GET /api/dashboard/:orgId" -> getDashboardMetrics(customers, records, orgId)
      [] route = "GET /api/customers/:orgId" -> getCustomers(customers, orgId)
      [] route = "GET /api/processing-records/:orgId" -> getProcessingRecords(records, orgId)
      [] route = "GET /api/inventory/:orgId" -> getInventoryItems(records, orgId)
      [] route = "GET /api/invoices/:orgId" -> getInvoices(records, orgId)
      [] route = "GET /api/cut-instructions/:orgId" -> getCutInstructions(records, orgId)

\* const rows = await storage.getX(orgId); res.json(rows);
ReadRoute_read(route) ==
    /\ req.route = route
    /\ req.pc = ReadCall(route)
    /\ req' = [Respond(Called(req, ReadCall(route)), 200, Null) EXCEPT
                 !.result = ReadResult(route, req.orgId)]
    /\ UNCHANGED <<organizations, members, customers, records, species, limits, seen, env, calc, pos>>

\* a handler that fetches the organization before it checks the membership
GetOrganization_getUserRole_existenceFirst ==
    /\ req.route = "GET /api/organizations/:id"
    /\ req.pc = "getUserRole"
    /\ \E role \in getUserRole(members, req.userId, req.orgId) :
        LET r == Called(req, "getUserRole")
        IN  req' = IF req.orgId \notin organizations
                   THEN Respond(r, 404, "Organization not found")
                   ELSE IF ReadDenied(role)
                        THEN Respond(r, 403, AccessDenied)
                        ELSE [r EXCEPT !.pc = "getOrganization"]
    /\ UNCHANGED <<organizations, members, customers, records, species, limits, seen, env, calc, pos>>

GetOrganization_getUserRole == ReadRoute_getUserRole("GET /api/organizations/:id")

\* const organization = await storage.getOrganization(orgId);
\* if (!organization) return res.status(404)...
GetOrganization_getOrganization ==
    /\ req.route = "GET /api/organizations/:id"
    /\ req.pc = "getOrganization"
    /\ LET organization == ReadResult(req.route, req.orgId)
       IN  req' = IF organization = << >>
                  THEN Respond(Called(req, "getOrganization"), 404, "Organization not found")
                  ELSE [Respond(Called(req, "getOrganization"), 200, Null) EXCEPT
                          !.result = organization]
    /\ UNCHANGED <<organizations, members, customers, records, species, limits, seen, env, calc, pos>>

GetDashboard_getUserRole == ReadRoute_getUserRole("GET /api/dashboard/:orgId")
GetDashboard_getDashboardMetrics == ReadRoute_read("GET /api/dashboard/:orgId")
GetCustomers_getUserRole == ReadRoute_getUserRole("GET /api/customers/:orgId")
GetCustomers_getCustomers == ReadRoute_read("GET /api/customers/:orgId")
GetProcessingRecords_getUserRole == ReadRoute_getUserRole("GET /api/processing-records/:orgId")
GetProcessingRecords_getProcessingRecords == ReadRoute_read("GET /api/processing-records/:orgId")
GetInventory_getUserRole == ReadRoute_getUserRole("GET /api/inventory/:orgId")
GetInventory_getInventoryItems == ReadRoute_read("GET /api/inventory/:orgId")
GetInvoices_getUserRole == ReadRoute_getUserRole("GET /api/invoices/:orgId")
GetInvoices_getInvoices == ReadRoute_read("GET /api/invoices/:orgId")
GetCutInstructions_getUserRole == ReadRoute_getUserRole("GET /api/cut-instructions/:orgId")
GetCutInstructions_getCutInstructions == ReadRoute_read("GET /api/cut-instructions/:orgId")

\* ----------------------------------------------------- the create routes
CreateRoute_Receive(routes) ==
    /\ CanReceive
    /\ \E route \in routes, u \in Users, o \in OrgIds :
        req' = Begin(route, u, o, 0, "getUserRole")
    /\ UNCHANGED <<organizations, members, customers, records, species, limits, seen, env, calc, pos>>

\* a create handler without the role check
CreateRoute_noCheck(route) ==
    /\ req.route = route
    /\ req.pc = "getUserRole"
    /\ req' = [Called(req, "getUserRole") EXCEPT !.pc = CreateCall(route)]
    /\ UNCHANGED <<organizations, members, customers, records, species, limits, seen, env, calc, pos>>

\* const role = await storage.getUserRole(userId, data.organizationId!);
\* if (!role || !['owner', 'admin', 'editor'].includes(role)) return 403
CreateRoute_getUserRole(route) ==
    /\ req.route = route
    /\ req.pc = "getUserRole"
    /\ \E role \in getUserRole(members, req.userId, req.orgId) :
        LET r == Called(req, "getUserRole")
        IN  req' = IF WriteDenied(role)
                   THEN Respond(r, 403, AccessDenied)
                   ELSE [r EXCEPT !.pc = CreateCall(route)]
    /\ UNCHANGED <<organizations, members, customers, records, species, limits, seen, env, calc, pos>>

\* the columns of a new row that the reads filter on, as the parsed body
\* gives them or the column defaults do: inventory_items.is_active (default
\* true), invoices.status (default "draft")
RowBodies(table) ==
    CASE table = "inventoryItems" -> { [ isActive |-> a, status |-> Null ] : a \in BOOLEAN }
      [] table = "invoices" -> { [ isActive |-> TRUE, status |-> st ] : st \in {"draft", "paid"} }
      [] OTHER -> { [ isActive |-> TRUE, status |-> Null ] }

\* a create step that looks the membership up again before it writes
CreateRoute_create_revalidates(route) ==
    /\ req.route = route
    /\ req.pc = CreateCall(route)
    /\ Rows < MaxRows
    /\ \E role \in getUserRole(members, req.userId, req.orgId) :
        IF WriteDenied(role)
        THEN /\ req' = Respond(req, 403, AccessDenied)
             /\ UNCHANGED records
        ELSE /\ \E body \in RowBodies(CreateTable(route)) :
                records' = Append(records,
                    [ table |-> CreateTable(route), organizationId |-> req.orgId,
                      isActive |-> body.isActive, status |-> body.status ])
             /\ req' = Respond(Called(req, CreateCall(route)), 200, Null)
    /\ UNCHANGED <<organizations, members, customers, species, limits, seen, env, calc, pos>>

\* const record = await storage.createX(data); res.json(record);
CreateRoute_create(route) ==
    /\ req.route = route
    /\ req.pc = CreateCall(route)
    /\ Rows < MaxRows
    /\ \E body \in RowBodies(CreateTable(route)) :
        records' = Append(records,
            [ table |-> CreateTable(route), organizationId |-> req.orgId,
              isActive |-> body.isActive, status |-> body.status ])
    /\ req' = Respond(Called(req, CreateCall(route)), 200, Null)
    /\ UNCHANGED <<organizations, members, customers, species, limits, seen, env, calc, pos>>

PostCustomers_getUserRole == CreateRoute_getUserRole("POST /api/customers")

\* const customer = await storage.createCustomer(customerData);
PostCustomers_createCustomer ==
    /\ req.route = "POST /api/customers"
    /\ req.pc = "createCustomer"
    /\ Rows < MaxRows
    /\ customers' = Append(customers,
            [ organizationId |-> req.orgId, isActive |-> TRUE ])
    /\ req' = Respond(Called(req, "createCustomer"), 200, Null)
    /\ UNCHANGED <<organizations, members, records, species, limits, seen, env, calc, pos>>

PostProcessingRecords_getUserRole == CreateRoute_getUserRole("POST /api/processing-records")
PostProcessingRecords_createProcessingRecord == CreateRoute_create("POST /api/processing-records")
PostInventory_getUserRole == CreateRoute_getUserRole("POST /api/inventory")
PostInventory_createInventoryItem == CreateRoute_create("POST /api/inventory")
PostInvoices_getUserRole == CreateRoute_getUserRole("POST /api/invoices")
PostInvoices_createInvoice == CreateRoute_create("POST /api/invoices")
PostCutInstructions_getUserRole == CreateRoute_getUserRole("POST /api/cut-instructions")
PostCutInstructions_createCutInstruction == CreateRoute_create("POST /api/cut-instructions")

\* --------------------------------------- PUT / DELETE /api/customers/:id
\* for PUT, orgId is the organizationId of the (partial) body, if it has one
CustomerById_Receive ==
    /\ CanReceive
    /\ \E u \in Users, id \in 1..MaxCustomerId :
        \/ \E o \in OrgIds \cup {Null} :
             req' = Begin("PUT /api/customers/:id", u, o, id, "getCustomer")
        \/ req' = Begin("DELETE /api/customers/:id", u, Null, id, "getCustomer")
    /\ UNCHANGED <<organizations, members, customers, records, species, limits, seen, env, calc, pos>>

\* a by-id handler that answers a missing customer like a denied one
CustomerById_getCustomer_hidesAbsence(route) ==
    /\ req.route = route
    /\ req.pc = "getCustomer"
    /\ LET rows == getCustomer(customers, req.customerId)
           r == [Called(req, "getCustomer") EXCEPT !.existing = rows]
       IN  req' = IF rows = << >>
                  THEN Respond(r, 403, AccessDenied)
                  ELSE [r EXCEPT !.pc = "getUserRole"]
    /\ UNCHANGED <<organizations, members, customers, records, species, limits, seen, env, calc, pos>>

\* const existingCustomer = await storage.getCustomer(customerId);
\* if (!existingCustomer) return res.status(404)...
CustomerById_getCustomer(route) ==
    /\ req.route = route
    /\ req.pc = "getCustomer"
    /\ LET rows == getCustomer(customers, req.customerId)
           r == [Called(req, "getCustomer") EXCEPT !.existing = rows]
       IN  req' = IF rows = << >>
                  THEN Respond(r, 404, "Customer not found")
                  ELSE [r EXCEPT !.pc = "getUserRole"]
    /\ UNCHANGED <<organizations, members, customers, records, species, limits, seen, env, calc, pos>>

\* a lookup in the organization the request body names, when it names one
RoleLookupOrg_fromBody(r) ==
    IF r.orgId # Null THEN r.orgId ELSE r.existing[1].organizationId

\* the organization the role is looked up in
RoleLookupOrg(r) == r.existing[1].organizationId

\* a by-id handler that tells non-members apart from members without the role
CustomerById_getUserRole_tellsNonMembers(route, next) ==
    /\ req.route = route
    /\ req.pc = "getUserRole"
    /\ \E role \in getUserRole(members, req.userId, req.existing[1].organizationId) :
        LET r == Called(req, "getUserRole")
        IN  req' = IF role = Null THEN Respond(r, 403, "Not a member of this organization")
                   ELSE IF role \notin {"owner", "admin", "editor"}
                        THEN Respond(r, 403, AccessDenied)
                        ELSE [r EXCEPT !.pc = next]
    /\ UNCHANGED <<organizations, members, customers, records, species, limits, seen, env, calc, pos>>

\* const role = await storage.getUserRole(userId, existingCustomer.organizationId!);
CustomerById_getUserRole(route, next) ==
    /\ req.route = route
    /\ req.pc = "getUserRole"
    /\ \E role \in getUserRole(members, req.userId, RoleLookupOrg(req)) :
        LET r == Called(req, "getUserRole")
        IN  req' = IF WriteDenied(role)
                   THEN Respond(r, 403, AccessDenied)
                   ELSE [r EXCEPT !.pc = next]
    /\ UNCHANGED <<organizations, members, customers, records, species, limits, seen, env, calc, pos>>

PutCustomer_getCustomer == CustomerById_getCustomer("PUT /api/customers/:id")
PutCustomer_getUserRole == CustomerById_getUserRole("PUT /api/customers/:id", "updateCustomer")

\* const customer = await storage.updateCustomer(customerId, customerData);
\* customers.organization_id references organizations.id: an update naming
\* no organization row is rejected by the store (StoreCallThrows)
PutCustomer_updateCustomer ==
    /\ req.route = "PUT /api/customers/:id"
    /\ req.pc = "updateCustomer"
    /\ req.orgId \in organizations \cup {Null}
    /\ customers' = updateCustomer(customers, req.customerId,
            [ organizationId |-> req.orgId ])
    /\ req' = Respond(Called(req, "updateCustomer"), 200, Null)
    /\ UNCHANGED <<organizations, members, records, species, limits, seen, env, calc, pos>>

DeleteCustomer_getCustomer == CustomerById_getCustomer("DELETE /api/customers/:id")
DeleteCustomer_getUserRole == CustomerById_getUserRole("DELETE /api/customers/:id", "deleteCustomer")

\* await storage.deleteCustomer(customerId);
DeleteCustomer_deleteCustomer ==
    /\ req.route = "DELETE /api/customers/:id"
    /\ req.pc = "deleteCustomer"
    /\ customers' = deleteCustomer(customers, req.customerId)
    /\ req' = Respond(Called(req, "deleteCustomer"), 200, "Customer deleted successfully")
    /\ UNCHANGED <<organizations, members, records, species, limits, seen, env, calc, pos>>

\* ---------------------------------------------------- POST /api/species
PostSpecies_Receive ==
    /\ CanReceive
    /\ \E u \in Users :
        req' = Begin("POST /api/species", u, Null, 0, "getUserOrganizations")
    /\ UNCHANGED <<organizations, members, customers, records, species, limits, seen, env, calc, pos>>

RECURSIVE OrgsOfRows(_, _)
\* the organization ids of the membership rows idx, in table order
OrgsOfRows(m, idx) ==
    IF idx = {} THEN << >>
    ELSE LET i == CHOOSE j \in idx : \A k \in idx : j <= k
         IN  << m[i].organizationId >> \o OrgsOfRows(m, idx \ {i})

RemoveAt(seq, k) == SubSeq(seq, 1, k - 1) \o SubSeq(seq, k + 1, Len(seq))

\* if (userOrganizations.length === 0 || !hasAdminRole.some(Boolean)) return 403
SpeciesDenied(userOrganizations, someAdmin) ==
    Len(userOrganizations) = 0 \/ ~someAdmin

\* const userOrganizations = await storage.getUserOrganizations(userId);
\* the map callback then starts one getUserRole per organization
PostSpecies_getUserOrganizations ==
    /\ req.route = "POST /api/species"
    /\ req.pc = "getUserOrganizations"
    /\ LET userOrganizations ==
               OrgsOfRows(members, getUserOrganizations(members, organizations, req.userId))
           r == Called(req, "getUserOrganizations")
       IN  req' = IF Len(userOrganizations) = 0
                  THEN IF SpeciesDenied(userOrganizations, FALSE)
                       THEN Respond(r, 403, SpeciesAccessDenied)
                       ELSE [r EXCEPT !.pc = "createSpecies"]
                  ELSE [r EXCEPT !.pc = "getUserRole", !.pending = userOrganizations]
    /\ UNCHANGED <<organizations, members, customers, records, species, limits, seen, env, calc, pos>>

\* one of the lookups of Promise.all resolves; after the last one the handler
\* decides
PostSpecies_getUserRole ==
    /\ req.route = "POST /api/species"
    /\ req.pc = "getUserRole"
    /\ \E k \in 1..Len(req.pending) :
        \E role \in getUserRole(members, req.userId, req.pending[k]) :
            LET someAdmin == req.hasAdminRole \/ IsAdminRole(role)
                rest == RemoveAt(req.pending, k)
                r == [Called(req, "getUserRole") EXCEPT
                        !.hasAdminRole = someAdmin, !.pending = rest]
            IN  req' = IF Len(rest) > 0 THEN r
                       ELSE IF SpeciesDenied(req.pending, someAdmin)
                            THEN Respond(r, 403, SpeciesAccessDenied)
                            ELSE [r EXCEPT !.pc = "createSpecies"]
    /\ UNCHANGED <<organizations, members, customers, records, species, limits, seen, env, calc, pos>>

\* const species = await storage.createSpecies(speciesData); res.json(species);
PostSpecies_createSpecies ==
    /\ req.route = "POST /api/species"
    /\ req.pc = "createSpecies"
    /\ Rows < MaxRows
    /\ species' = species + 1
    /\ req' = Respond(Called(req, "createSpecies"), 200, Null)
    /\ UNCHANGED <<organizations, members, customers, records, limits, seen, env, calc, pos>>

\* ------------------------------------------ the middleware of every request
\* a request from client ip arrives with a parsed JSON body and query string;
\* users has Null in it when requests without a session are sent
Http_Receive(routes, users, inputs, cap) ==
    /\ CanReceive
    /\ \E route \in routes, ip \in Clients, u \in users, in \in inputs :
        /\ SentInWindow("apiRateLimiter") < cap
        /\ req' = [Begin(route, u, Null, 0, "sanitizeInput") EXCEPT
                     !.ip = ip, !.body = in.body, !.query = in.query]
        /\ seen' = [seen EXCEPT
                      !.apiRateLimiter[ip].sent = @ + 1,
                      !.adminRateLimiter[ip].sent = IF route = "POST /api/species" THEN @ + 1 ELSE @]
    /\ UNCHANGED <<organizations, members, customers, records, species, limits, env, calc, pos>>

\* app.use(securityMiddleware.sanitizeInput)
Http_sanitizeInput ==
    /\ req.pc = "sanitizeInput"
    /\ req' = [req EXCEPT !.body = sanitizeObject(@),
                          !.query = sanitizeObject(@),
                          !.pc = "sqlInjectionProtection"]
    /\ UNCHANGED <<organizations, members, customers, records, species, limits, seen, env, calc, pos>>

\* app.use(securityMiddleware.sqlInjectionProtection)
Http_sqlInjectionProtection ==
    /\ req.pc = "sqlInjectionProtection"
    /\ req' = IF scanObject(req.body)
              THEN Respond(req, 400, "Invalid request content")
              ELSE IF scanObject(req.query)
                   THEN Respond(req, 400, "Invalid query parameters")
                   ELSE [req EXCEPT !.pc = "apiRateLimiter"]
    /\ UNCHANGED <<organizations, members, customers, records, species, limits, seen, env, calc, pos>>

\* rateLimit({ windowMs, max, message }): the request is counted for its
\* client; over max it is answered 429, otherwise next() runs
RateLimiter(name, max, message, next) ==
    /\ req.pc = name
    /\ LET store == Hit(limits[name], req.ip)
       IN  /\ limits' = [limits EXCEPT ![name] = store]
           /\ IF OverLimit(store, req.ip, max)
              THEN /\ req' = Respond(req, 429, message)
                   /\ seen' = [seen EXCEPT ![name][req.ip].limited = @ + 1]
              ELSE /\ req' = [req EXCEPT !.pc = next]
                   /\ seen' = [seen EXCEPT ![name][req.ip].handled = @ + 1]
    /\ UNCHANGED <<organizations, members, customers, records, species, env, calc, pos>>

\* app.use('/api', securityMiddleware.apiRateLimiter); POST /api/species has
\* adminRateLimiter as the first middleware of its route
Http_apiRateLimiter ==
    RateLimiter("apiRateLimiter", ApiMax, ApiLimitMessage,
                IF req.route = "POST /api/species"
                THEN "adminRateLimiter" ELSE "isAuthenticated")

\* app.post('/api/species', securityMiddleware.adminRateLimiter, ...)
Http_adminRateLimiter ==
    /\ req.route = "POST /api/species"
    /\ RateLimiter("adminRateLimiter", AdminMax, AdminLimitMessage, "isAuthenticated")

\* the first call of each handler behind isAuthenticated
HandlerEntry(route) ==
    CASE route = "GET /api/species" -> "getAllSpecies"
      [] route \in { "POST /api/organizations", "POST /api/species" } -> "parse"

\* isAuthenticated: a request without a session is answered 401
Http_isAuthenticated ==
    /\ req.pc = "isAuthenticated"
    /\ req' = IF req.userId = Null
              THEN Respond(req, 401, "Unauthorized")
              ELSE [req EXCEPT !.pc = HandlerEntry(req.route)]
    /\ UNCHANGED <<organizations, members, customers, records, species, limits, seen, env, calc, pos>>

\* schema.parse(req.body) inside the handler's try: a ZodError lands in the
\* handler's catch, which answers 500 like any other error
Parse(route, valid, next) ==
    /\ req.route = route
    /\ req.pc = "parse"
    /\ req' = IF valid
              THEN [req EXCEPT !.pc = next]
              ELSE [Respond(req, 500, FailureMessage(route)) EXCEPT !.failedAt = "parse"]
    /\ UNCHANGED <<organizations, members, customers, records, species, limits, seen, env, calc, pos>>

\* const orgData = insertOrganizationSchema.parse(req.body);
PostOrganizations_parse ==
    Parse("POST /api/organizations", insertOrganizationSchema(req.body),
          "createOrganization")

\* const speciesData = insertSpeciesSchema.parse(req.body);
PostSpecies_parse ==
    Parse("POST /api/species", insertSpeciesSchema(req.body), "getUserOrganizations")

\* const species = await storage.getAllSpecies(); res.json(species);
GetSpecies_getAllSpecies ==
    /\ req.route = "GET /api/species"
    /\ req.pc = "getAllSpecies"
    /\ req' = Respond(Called(req, "getAllSpecies"), 200, Null)
    /\ UNCHANGED <<organizations, members, customers, records, species, limits, seen, env, calc, pos>>

\* -------------------------------------------------- the global error handler
\* values of process.env.NODE_ENV (Null: not set)
NodeEnvs == { "production", "development", "test", Null }

\* errors a middleware hands to next(err): message (possibly empty) and stack
Errors ==
    { [ message |-> "connect ECONNREFUSED 10.0.0.5:5432",
        stack |-> "Error: connect ECONNREFUSED 10.0.0.5:5432 at TCPConnectWrap" ],
      [ message |-> "", stack |-> "Error at Layer.handle" ] }

InternalErrorMessage == "An internal server error occurred"

\* a || b of JavaScript on strings
OrElse(a, b) == IF a = "" \/ a = Null THEN b ELSE a

\* an error handler that answers with error.message in every environment
globalErrorHandler_leaksMessage(error, r, requestId, nodeEnv) ==
    [ Respond(r, 500, OrElse(error.message, InternalErrorMessage)) EXCEPT
        !.error = error,
        !.result = [ message |-> OrElse(error.message, InternalErrorMessage),
                     requestId |-> OrElse(requestId, "unknown") ] ]

\* globalErrorHandler(error, req, res, next): the response it sends, given
\* the x-request-id header and NODE_ENV
globalErrorHandler(error, r, requestId, nodeEnv) ==
    IF nodeEnv = "production"
    THEN [ Respond(r, 500, InternalErrorMessage) EXCEPT
             !.error = error,
             !.result = [ message |-> InternalErrorMessage,
                          requestId |-> OrElse(requestId, "unknown") ] ]
    ELSE [ Respond(r, 500, OrElse(error.message, InternalErrorMessage)) EXCEPT
             !.error = error,
             !.result = [ message |-> OrElse(error.message, InternalErrorMessage),
                          stack |-> error.stack,
                          path |-> r.route ] ]

\* a middleware behind the two filters (a limiter's store, the session of
\* isAuthenticated) calls next(err): express skips to the error handler
Http_nextError ==
    /\ req.pc \in { "apiRateLimiter", "adminRateLimiter", "isAuthenticated" }
    /\ \E error \in Errors, requestId \in { Null, "rid-1" } :
        req' = globalErrorHandler(error, req, requestId, env)
    /\ UNCHANGED <<organizations, members, customers, records, species, limits, seen, env, calc, pos>>

\* ------------------------------------------ membership changes (other flows)
\* a member is invited: a row is inserted, isActive defaulting to true
InviteMember(cap, roles) ==
    /\ Len(members) < cap
    /\ \E u \in Users, o \in organizations, role \in roles :
        members' = addOrganizationMember(members,
            [ organizationId |-> o, userId |-> u, role |-> role, isActive |-> TRUE ])
    /\ UNCHANGED <<organizations, customers, records, species, req, limits, seen, env, calc, pos>>

\* a membership is soft-deactivated: isActive = false, the row stays
DeactivateMember ==
    /\ \E i \in 1..Len(members) :
        /\ members[i].isActive
        /\ members' = [members EXCEPT ![i].isActive = FALSE]
    /\ UNCHANGED <<organizations, customers, records, species, req, limits, seen, env, calc, pos>>

\* a member's role is changed, as one update of the row
ChangeRole(roles) ==
    /\ \E i \in 1..Len(members), role \in roles :
        /\ members[i].role # role
        /\ members' = [members EXCEPT ![i].role = role]
    /\ UNCHANGED <<organizations, customers, records, species, req, limits, seen, env, calc, pos>>

\* ------------------------------------------------------------ specification
Next ==
    \/ PostOrganizations_Receive
    \/ PostOrganizations_createOrganization
    \/ PostOrganizations_addOrganizationMember(MaxMembers)
    \/ ReadRoute_Receive(ReadRoutes)
    \/ GetOrganization_getUserRole
    \/ GetOrganization_getOrganization
    \/ GetDashboard_getUserRole
    \/ GetDashboard_getDashboardMetrics
    \/ GetCustomers_getUserRole
    \/ GetCustomers_getCustomers
    \/ GetProcessingRecords_getUserRole
    \/ GetProcessingRecords_getProcessingRecords
    \/ GetInventory_getUserRole
    \/ GetInventory_getInventoryItems
    \/ GetInvoices_getUserRole
    \/ GetInvoices_getInvoices
    \/ GetCutInstructions_getUserRole
    \/ GetCutInstructions_getCutInstructions
    \/ CreateRoute_Receive(CreateRoutes)
    \/ PostCustomers_getUserRole
    \/ PostCustomers_createCustomer
    \/ PostProcessingRecords_getUserRole
    \/ PostProcessingRecords_createProcessingRecord
    \/ PostInventory_getUserRole
    \/ PostInventory_createInventoryItem
    \/ PostInvoices_getUserRole
    \/ PostInvoices_createInvoice
    \/ PostCutInstructions_getUserRole
    \/ PostCutInstructions_createCutInstruction
    \/ CustomerById_Receive
    \/ PutCustomer_getCustomer
    \/ PutCustomer_getUserRole
    \/ PutCustomer_updateCustomer
    \/ DeleteCustomer_getCustomer
    \/ DeleteCustomer_getUserRole
    \/ DeleteCustomer_deleteCustomer
    \/ PostSpecies_Receive
    \/ PostSpecies_getUserOrganizations
    \/ PostSpecies_getUserRole
    \/ PostSpecies_createSpecies
    \/ StoreCallThrows
    \/ InviteMember(MaxMembers, RoleStrings)
    \/ DeactivateMember
    \/ ChangeRole(RoleStrings)

Spec == Init /\ [][Next]_vars

\* The customer and species routes alone, over a membership table of up to
\* MaxTenantMembers rows carrying the documented roles: a principal can hold
\* rows in two organizations, and two principals a row each.
NextTenants ==
    \/ PostOrganizations_Receive
    \/ PostOrganizations_createOrganization
    \/ PostOrganizations_addOrganizationMember(MaxTenantMembers)
    \/ ReadRoute_Receive({"GET /api/customers/:orgId"})
    \/ GetCustomers_getUserRole
    \/ GetCustomers_getCustomers
    \/ CreateRoute_Receive({"POST /api/customers"})
    \/ PostCustomers_getUserRole
    \/ PostCustomers_createCustomer
    \/ CustomerById_Receive
    \/ PutCustomer_getCustomer
    \/ PutCustomer_getUserRole
    \/ PutCustomer_updateCustomer
    \/ DeleteCustomer_getCustomer
    \/ DeleteCustomer_getUserRole
    \/ DeleteCustomer_deleteCustomer
    \/ PostSpecies_Receive
    \/ PostSpecies_getUserOrganizations
    \/ PostSpecies_getUserRole
    \/ PostSpecies_createSpecies
    \/ StoreCallThrows
    \/ InviteMember(MaxTenantMembers, Roles)
    \/ DeactivateMember
    \/ ChangeRole(Roles)

SpecTenants == Init /\ [][NextTenants]_vars

\* The storage operations on organizations and memberships called directly,
\* next to POST /api/organizations, the one route that calls them.
\* createOrganization(org): the row gets a fresh id
Storage_createOrganization ==
    /\ Cardinality(organizations) < Len(OrgIdSeq)
    /\ organizations' = organizations \cup { OrgIdSeq[Cardinality(organizations) + 1] }
    /\ UNCHANGED <<members, customers, records, species, req, limits, seen, env, calc, pos>>

\* addOrganizationMember(member): the row is inserted as given; nothing is
\* looked up first and the table has no unique index on (organization, user)
Storage_addOrganizationMember(cap) ==
    /\ Len(members) < cap
    /\ \E u \in Users, o \in organizations, role \in Roles, active \in BOOLEAN :
        members' = addOrganizationMember(members,
            [ organizationId |-> o, userId |-> u, role |-> role, isActive |-> active ])
    /\ UNCHANGED <<organizations, customers, records, species, req, limits, seen, env, calc, pos>>

NextStorage ==
    \/ Storage_createOrganization
    \/ Storage_addOrganizationMember(MaxTenantMembers)
    \/ PostOrganizations_Receive
    \/ PostOrganizations_createOrganization
    \/ PostOrganizations_addOrganizationMember(MaxTenantMembers)
    \/ StoreCallThrows

SpecStorage == Init /\ [][NextStorage]_vars

\* Every read and create route over a membership table of up to
\* MaxTenantMembers rows: two organizations, each with a member who can write.
NextReads ==
    \/ PostOrganizations_Receive
    \/ PostOrganizations_createOrganization
    \/ PostOrganizations_addOrganizationMember(MaxTenantMembers)
    \/ ReadRoute_Receive(ReadRoutes)
    \/ GetOrganization_getUserRole
    \/ GetOrganization_getOrganization
    \/ GetDashboard_getUserRole
    \/ GetDashboard_getDashboardMetrics
    \/ GetCustomers_getUserRole
    \/ GetCustomers_getCustomers
    \/ GetProcessingRecords_getUserRole
    \/ GetProcessingRecords_getProcessingRecords
    \/ GetInventory_getUserRole
    \/ GetInventory_getInventoryItems
    \/ GetInvoices_getUserRole
    \/ GetInvoices_getInvoices
    \/ GetCutInstructions_getUserRole
    \/ GetCutInstructions_getCutInstructions
    \/ CreateRoute_Receive(CreateRoutes)
    \/ PostCustomers_getUserRole
    \/ PostCustomers_createCustomer
    \/ PostProcessingRecords_getUserRole
    \/ PostProcessingRecords_createProcessingRecord
    \/ PostInventory_getUserRole
    \/ PostInventory_createInventoryItem
    \/ PostInvoices_getUserRole
    \/ PostInvoices_createInvoice
    \/ PostCutInstructions_getUserRole
    \/ PostCutInstructions_createCutInstruction
    \/ StoreCallThrows
    \/ InviteMember(MaxTenantMembers, {"viewer"})
    \/ DeactivateMember

SpecReads == Init /\ [][NextReads]_vars

\* ----------------------------------------------------------- sanitizeInput
\* the pieces strings are made of (see sanitizeInput above)
Pieces == { "<script>", "</script>", "<scr", "ipt>", "java", "script:",
            "onclick=", "x", " " }

\* every string of at most n pieces
PieceStrings(n) == UNION { [ 1..k -> Pieces ] : k \in 0..n }

\* an empty object: {} of a request without body or without query string
EmptyObject == Obj(<< >>)

\* the string s as a field of the body, inside an array, inside a nested
\* object, and as a query parameter
XssInput(k, s) ==
    CASE k = 1 -> [ body |-> Obj([ name |-> Str(s) ]), query |-> EmptyObject ]
      [] k = 2 -> [ body |-> Obj([ tags |-> Arr(<< Str(s) >>) ]), query |-> EmptyObject ]
      [] k = 3 -> [ body |-> Obj([ contact |-> Obj([ name |-> Str(s) ]) ]),
                    query |-> EmptyObject ]
      [] k = 4 -> [ body |-> EmptyObject, query |-> Obj([ search |-> Str(s) ]) ]

XssInputs(n) == { XssInput(k, s) : k \in 1..4, s \in PieceStrings(n) }

\* requests with such inputs arrive and are sanitized
NextSanitize ==
    \/ Http_Receive({"POST /api/organizations"}, {"alice"}, XssInputs(MaxLen), MaxValidated)
    \/ Http_sanitizeInput
    \/ Http_sqlInjectionProtection

SpecSanitize == Init /\ [][NextSanitize]_vars

\* ------------------------------------------- validation and SQL injection
\* the four payloads of the injection test, word by word
DropTablePayload ==
    << "'", ";", " ", "DROP", " ", "TABLE", " ", "users", ";", " ", "--" >>
TautologyPayload ==
    << "'", " ", "OR", " ", "'", "1", "'", "=", "'", "1" >>
UnionSelectPayload ==
    << "UNION", " ", "SELECT", " ", "*", " ", "FROM", " ", "organizations" >>
InsertPayload ==
    << "'", ";", " ", "INSERT", " ", "INTO", " ", "organizations", " ",
       "VALUES('hack')", ";", " ", "--" >>
InjectionPayloads ==
    { DropTablePayload, TautologyPayload, UnionSelectPayload, InsertPayload }

\* the bodies of the validation tests and of the injection test
ValidOrganization == Obj([ name |-> Str(<< "Acme" >>) ])
ValidSpecies ==
    Obj([ name |-> Str(<< "Test" >>), category |-> Str(<< "beef" >>),
          liveToHangingRatio |-> Str(<< "0.625" >>),
          hangingToRetailRatio |-> Str(<< "0.742" >>) ])
ValidationBodies ==
    { ValidOrganization,
      ValidSpecies,
      Obj([ email |-> Str(<< "invalid-email" >>) ]),
      Obj([ name |-> Str(<< "Test" >>), category |-> Str(<< >>) ]) }
        \cup { Obj([ name |-> Str(p) ]) : p \in InjectionPayloads }
        \cup { Obj([ name |-> Str(<< "Acme" >>), description |-> Str(p) ])
               : p \in InjectionPayloads }

ValidationInputs == { [ body |-> b, query |-> EmptyObject ] : b \in ValidationBodies }

\* POST /api/organizations and POST /api/species behind the whole chain
NextValidation ==
    \/ Http_Receive({"POST /api/organizations", "POST /api/species"},
                    Users \cup {Null}, ValidationInputs, MaxValidated)
    \/ Http_sanitizeInput
    \/ Http_sqlInjectionProtection
    \/ Http_apiRateLimiter
    \/ Http_adminRateLimiter
    \/ Http_isAuthenticated
    \/ PostOrganizations_parse
    \/ PostOrganizations_createOrganization
    \/ PostOrganizations_addOrganizationMember(MaxTenantMembers)
    \/ PostSpecies_parse
    \/ PostSpecies_getUserOrganizations
    \/ PostSpecies_getUserRole
    \/ PostSpecies_createSpecies
    \/ StoreCallThrows

SpecValidation == Init /\ [][NextValidation]_vars

\* ------------------------------------------------------- the API limiter
\* a GET has neither body nor query string
NoInput == { [ body |-> EmptyObject, query |-> EmptyObject ] }

\* the burst the rate-limit test sends to GET /api/species
ApiBurst == 15

\* GET /api/species behind the whole chain, within one window of the limiter
NextApiLimit ==
    \/ Http_Receive({"GET /api/species"}, {"alice", Null}, NoInput, MaxApiBurst)
    \/ Http_sanitizeInput
    \/ Http_sqlInjectionProtection
    \/ Http_apiRateLimiter
    \/ Http_isAuthenticated
    \/ GetSpecies_getAllSpecies
    \/ StoreCallThrows

SpecApiLimit == Init /\ [][NextApiLimit]_vars

\* ------------------------------------------------- the species limiter
\* the species bodies sent: the one of the limiter test, and one carrying an
\* injection payload
AdminLimitInputs ==
    { [ body |-> ValidSpecies, query |-> EmptyObject ],
      [ body |-> Obj([ name |-> Str(UnionSelectPayload) ]), query |-> EmptyObject ] }

\* alice has created org1 and is its owner
InitAdminLimit ==
    /\ organizations = {"org1"}
    /\ members = << [ organizationId |-> "org1", userId |-> "alice",
                      role |-> "owner", isActive |-> TRUE ] >>
    /\ customers = << >>
    /\ records = << >>
    /\ species = 0
    /\ req = Idle
    /\ limits = [ apiRateLimiter |-> NoHits, adminRateLimiter |-> NoHits ]
    /\ seen = [ apiRateLimiter |-> NoneSeen, adminRateLimiter |-> NoneSeen ]
    /\ env = Null
    /\ calc = NoCalculation
    /\ pos = PosClosed

\* POST /api/species behind the whole chain, within one hour of the species
\* limiter
NextAdminLimit ==
    \/ Http_Receive({"POST /api/species"}, {"alice"}, AdminLimitInputs, MaxAdminBurst)
    \/ Http_sanitizeInput
    \/ Http_sqlInjectionProtection
    \/ Http_apiRateLimiter
    \/ Http_adminRateLimiter
    \/ Http_isAuthenticated
    \/ PostSpecies_parse
    \/ PostSpecies_getUserOrganizations
    \/ PostSpecies_getUserRole
    \/ PostSpecies_createSpecies
    \/ StoreCallThrows

SpecAdminLimit == InitAdminLimit /\ [][NextAdminLimit]_vars

\* ------------------------------------------------------- error handling
\* the server runs with any NODE_ENV
InitErrors ==
    /\ organizations = {}
    /\ members = << >>
    /\ customers = << >>
    /\ records = << >>
    /\ species = 0
    /\ req = Idle
    /\ limits = [ apiRateLimiter |-> NoHits, adminRateLimiter |-> NoHits ]
    /\ seen = [ apiRateLimiter |-> NoneSeen, adminRateLimiter |-> NoneSeen ]
    /\ env \in NodeEnvs
    /\ calc = NoCalculation
    /\ pos = PosClosed

\* GET /api/species and POST /api/species behind the chain, any middleware of
\* which may fail
NextErrors ==
    \/ Http_Receive({"GET /api/species", "POST /api/species"}, {"alice", Null},
                    NoInput, MaxValidated)
    \/ Http_sanitizeInput
    \/ Http_sqlInjectionProtection
    \/ Http_apiRateLimiter
    \/ Http_adminRateLimiter
    \/ Http_isAuthenticated
    \/ Http_nextError
    \/ GetSpecies_getAllSpecies
    \/ PostSpecies_parse
    \/ StoreCallThrows

SpecErrors == InitErrors /\ [][NextErrors]_vars

\* ------------------------------------------------ JavaScript Number values
\* A Number is an IEEE 754 binary64 value.  Its 53-bit significand does not
\* fit the integers of the model checker, so naturals are kept as sequences
\* of limbs, least significant first, in base 2^15, with no leading zero
\* limb (zero is the empty sequence).
Base == 2^15

Rest(s) == IF s = << >> THEN << >> ELSE Tail(s)

Limb(s) == IF s = << >> THEN 0 ELSE Head(s)

RECURSIVE BigNorm(_)
BigNorm(a) ==
    IF a = << >> THEN a
    ELSE IF a[Len(a)] = 0 THEN BigNorm(SubSeq(a, 1, Len(a) - 1)) ELSE a

RECURSIVE BigOfInt(_)
BigOfInt(n) == IF n = 0 THEN << >> ELSE << n % Base >> \o BigOfInt(n \div Base)

RECURSIVE BigToInt(_)
BigToInt(a) == IF a = << >> THEN 0 ELSE Head(a) + Base * BigToInt(Tail(a))

RECURSIVE BigAddC(_, _, _)
BigAddC(a, b, carry) ==
    IF a = << >> /\ b = << >> THEN BigOfInt(carry)
    ELSE LET t == Limb(a) + Limb(b) + carry
         IN  << t % Base >> \o BigAddC(Rest(a), Rest(b), t \div Base)

BigAdd(a, b) == BigNorm(BigAddC(a, b, 0))

\* a - b for a >= b
RECURSIVE BigSubB(_, _, _)
BigSubB(a, b, borrow) ==
    IF a = << >> THEN << >>
    ELSE LET t == Head(a) - Limb(b) - borrow
         IN  IF t < 0 THEN << t + Base >> \o BigSubB(Tail(a), Rest(b), 1)
             ELSE << t >> \o BigSubB(Tail(a), Rest(b), 0)

BigSub(a, b) == BigNorm(BigSubB(a, b, 0))

RECURSIVE BigCmpAt(_, _, _)
BigCmpAt(a, b, k) ==
    IF k = 0 THEN 0
    ELSE IF a[k] > b[k] THEN 1
    ELSE IF a[k] < b[k] THEN -1
    ELSE BigCmpAt(a, b, k - 1)

\* -1, 0 or 1 as a < b, a = b or a > b
BigCmp(a, b) ==
    IF Len(a) > Len(b) THEN 1
    ELSE IF Len(a) < Len(b) THEN -1
    ELSE BigCmpAt(a, b, Len(a))

RECURSIVE BigMulSmallC(_, _, _)
BigMulSmallC(a, k, carry) ==
    IF a = << >> THEN BigOfInt(carry)
    ELSE LET t == Head(a) * k + carry
         IN  << t % Base >> \o BigMulSmallC(Tail(a), k, t \div Base)

\* a * k for 0 <= k < Base
BigMulSmall(a, k) == BigNorm(BigMulSmallC(a, k, 0))

RECURSIVE BigMulAcc(_, _)
BigMulAcc(a, b) ==
    IF b = << >> THEN << >>
    ELSE BigAddC(BigMulSmallC(a, Head(b), 0), << 0 >> \o BigMulAcc(a, Tail(b)), 0)

BigMul(a, b) == BigNorm(BigMulAcc(a, b))

\* quotient and remainder of a by d, 0 < d <= Base
RECURSIVE BigDivSmallR(_, _)
BigDivSmallR(a, d) ==
    IF a = << >> THEN [ q |-> << >>, r |-> 0 ]
    ELSE LET hi == BigDivSmallR(Tail(a), d)
             t == hi.r * Base + Head(a)
         IN  [ q |-> << t \div d >> \o hi.q, r |-> t % d ]

BigDivSmall(a, d) ==
    LET qr == BigDivSmallR(a, d) IN [ q |-> BigNorm(qr.q), r |-> qr.r ]

Zeros(n) == [ i \in 1..n |-> 0 ]

\* a * 2^n
BigShl(a, n) == BigNorm(Zeros(n \div 15) \o BigMulSmallC(a, 2^(n % 15), 0))

\* floor(a / 2^n)
BigShr(a, n) ==
    IF n \div 15 >= Len(a) THEN << >>
    ELSE BigDivSmall(SubSeq(a, n \div 15 + 1, Len(a)), 2^(n % 15)).q

RECURSIVE IntBitLen(_)
IntBitLen(n) == IF n = 0 THEN 0 ELSE 1 + IntBitLen(n \div 2)

BigBitLen(a) == IF a = << >> THEN 0 ELSE 15 * (Len(a) - 1) + IntBitLen(a[Len(a)])

BigIsOdd(a) == a # << >> /\ Head(a) % 2 = 1

\* the largest digit d with b * d <= r, at or below the estimate
RECURSIVE BigDivDigit(_, _, _)
BigDivDigit(r, b, estimate) ==
    IF BigCmp(BigMulSmall(b, estimate), r) > 0
    THEN BigDivDigit(r, b, estimate - 1)
    ELSE estimate

\* long division in base 2^15 by b whose top limb is at least 2^14: st is the
\* quotient and remainder of the limbs of a above limb j.  The digit is
\* estimated from the top limbs of the running remainder and of b.
RECURSIVE BigDivModLimbs(_, _, _, _)
BigDivModLimbs(st, a, j, b) ==
    IF j = 0 THEN st
    ELSE LET r2 == BigNorm(<< a[j] >> \o st.r)
             top == IF Len(r2) > Len(b) THEN r2[Len(b) + 1] * Base + r2[Len(b)]
                    ELSE r2[Len(b)]
             guess == top \div b[Len(b)]
             d == BigDivDigit(r2, b, IF guess >= Base THEN Base - 1 ELSE guess)
         IN  IF BigCmp(r2, b) < 0
             THEN BigDivModLimbs([ q |-> << 0 >> \o st.q, r |-> r2 ], a, j - 1, b)
             ELSE BigDivModLimbs([ q |-> << d >> \o st.q,
                                   r |-> BigSub(r2, BigMulSmall(b, d)) ], a, j - 1, b)

\* quotient and remainder of a by b > 0
BigDivMod(a, b) ==
    LET s == 15 - IntBitLen(b[Len(b)])
        a2 == BigShl(a, s)
        st == BigDivModLimbs([ q |-> << >>, r |-> << >> ], a2, Len(a2), BigShl(b, s))
    IN  [ q |-> BigNorm(st.q), r |-> BigShr(st.r, s) ]

\* A Number: NaN, an infinity, or sign * m * 2^e with m odd (m zero and e = 0
\* for the two zeros).
NaN == [ kind |-> "NaN", sign |-> 1, m |-> << >>, e |-> 0 ]

Infinity(sign) == [ kind |-> "Infinity", sign |-> sign, m |-> << >>, e |-> 0 ]

RECURSIVE TrailingZeroLimbs(_)
TrailingZeroLimbs(m) == IF Head(m) # 0 THEN 0 ELSE 1 + TrailingZeroLimbs(Tail(m))

RECURSIVE TrailingZeroBits(_)
TrailingZeroBits(n) == IF n % 2 = 1 THEN 0 ELSE 1 + TrailingZeroBits(n \div 2)

Finite(sign, m, e) ==
    IF m = << >> THEN [ kind |-> "finite", sign |-> sign, m |-> << >>, e |-> 0 ]
    ELSE LET z == 15 * TrailingZeroLimbs(m)
             odd == BigShr(m, z)
             t == TrailingZeroBits(Head(odd))
         IN  [ kind |-> "finite", sign |-> sign, m |-> BigShr(odd, t), e |-> e + z + t ]

IsZero(x) == x.kind = "finite" /\ x.m = << >>

\* the Number nearest to sign * (n + f) * 2^e, where 0 <= f < 1 and f > 0 iff
\* sticky: round to nearest, ties to even, on a 53-bit significand.  The
\* exponent range is not modelled: the values here stay far inside it.
RoundToNumber(sign, n, e, sticky) ==
    LET len == BigBitLen(n)
        shift == len - 53
        q == BigShr(n, shift)
        r == BigSub(n, BigShl(q, shift))
        c == BigCmp(r, BigShl(<< 1 >>, shift - 1))
        up == c = 1 \/ (c = 0 /\ (sticky \/ BigIsOdd(q)))
    IN  IF len <= 53 THEN Finite(sign, n, e)
        ELSE Finite(sign, IF up THEN BigAdd(q, << 1 >>) ELSE q, e + shift)

\* floor(n / 10^s), and whether the division left a remainder
RECURSIVE DivPow10(_, _)
DivPow10(n, s) ==
    IF s = 0 THEN [ q |-> n, sticky |-> FALSE ]
    ELSE LET prev == DivPow10(n, s - 1)
             d == BigDivSmall(prev.q, 10)
         IN  [ q |-> d.q, sticky |-> prev.sticky \/ d.r # 0 ]

\* the Number a decimal literal or string denotes: sign * n / 10^s, n a
\* natural in limbs, s <= 5
NumberOfDecimal(sign, n, s) ==
    LET d == DivPow10(Zeros(5) \o n, s)
    IN  IF n = << >> THEN Finite(sign, << >>, 0)
        ELSE RoundToNumber(sign, d.q, -75, d.sticky)

\* x * y
NumberMul(x, y) ==
    IF x.kind = "NaN" \/ y.kind = "NaN" THEN NaN
    ELSE IF x.kind = "Infinity" \/ y.kind = "Infinity"
         THEN IF IsZero(x) \/ IsZero(y) THEN NaN ELSE Infinity(x.sign * y.sign)
    ELSE RoundToNumber(x.sign * y.sign, BigMul(x.m, y.m), x.e + y.e, FALSE)

\* x / y
NumberDiv(x, y) ==
    IF x.kind = "NaN" \/ y.kind = "NaN" THEN NaN
    ELSE IF x.kind = "Infinity"
         THEN IF y.kind = "Infinity" THEN NaN ELSE Infinity(x.sign * y.sign)
    ELSE IF y.kind = "Infinity" THEN Finite(x.sign * y.sign, << >>, 0)
    ELSE IF IsZero(y)
         THEN IF IsZero(x) THEN NaN ELSE Infinity(x.sign * y.sign)
    ELSE IF IsZero(x) THEN Finite(x.sign * y.sign, << >>, 0)
    ELSE LET k == 56 + BigBitLen(y.m) - BigBitLen(x.m)
             d == BigDivMod(BigShl(x.m, k), y.m)
         IN  RoundToNumber(x.sign * y.sign, d.q, x.e - y.e - k, d.r # << >>)

\* Number.prototype.toFixed(2): the decimal string with two fraction digits
\* nearest to x, the larger one on a tie of the exact value; here the string
\* as its sign and its digits read as an integer ("-62.50" is -1 and 6250)
toFixed2(x) ==
    IF x.kind # "finite" THEN [ kind |-> x.kind, sign |-> x.sign, digits |-> << >> ]
    ELSE LET n == BigMulSmall(x.m, 100)
             s == -x.e
             q == BigShr(n, s)
             r == BigSub(n, BigShl(q, s))
             up == BigCmp(BigShl(r, 1), BigShl(<< 1 >>, s)) >= 0
         IN  [ kind |-> "finite", sign |-> IF x.m = << >> THEN 1 ELSE x.sign,
               digits |-> IF x.e >= 0 THEN BigShl(n, x.e)
                          ELSE IF up THEN BigAdd(q, << 1 >>) ELSE q ]

\* Number(string) of a string toFixed(2) made
NumberOfFixed2(str) ==
    IF str.kind = "NaN" THEN NaN
    ELSE IF str.kind = "Infinity" THEN Infinity(str.sign)
    ELSE NumberOfDecimal(str.sign, str.digits, 2)

\* return Number((liveWeight * liveToHangingRatio).toFixed(2));
calculateHangingWeight(liveWeight, liveToHangingRatio) ==
    NumberOfFixed2(toFixed2(NumberMul(liveWeight, liveToHangingRatio)))

\* return Number((hangingWeight * hangingToRetailRatio).toFixed(2));
calculateRetailWeight(hangingWeight, hangingToRetailRatio) ==
    NumberOfFixed2(toFixed2(NumberMul(hangingWeight, hangingToRetailRatio)))

\* return Number(((finalWeight / initialWeight) * 100).toFixed(2));
calculateYieldPercentage(finalWeight, initialWeight) ==
    NumberOfFixed2(toFixed2(
        NumberMul(NumberDiv(finalWeight, initialWeight), NumberOfDecimal(1, BigOfInt(100), 0))))

\* return Number((hangingWeight * costPerPound).toFixed(2));
calculateProcessingCost(hangingWeight, costPerPound) ==
    NumberOfFixed2(toFixed2(NumberMul(hangingWeight, costPerPound)))

\* ---------------------------------------------------- the yield calculator
\* a decimal literal of the test file: sign * n / 10^s
Dec(sign, n, s) == [ sign |-> sign, n |-> n, s |-> s ]

NumberOf(d) == NumberOfDecimal(d.sign, BigOfInt(d.n), d.s)

\* the decimal a string of toFixed(2) reads as
DecOfFixed2(str) == Dec(str.sign, BigToInt(str.digits), 2)

\* live weights of the tests (1200, 250, 70, 1000, 100, -100 lb) and 0, 1001
LiveWeights ==
    { Dec(1, 1200, 0), Dec(1, 250, 0), Dec(1, 70, 0), Dec(1, 1000, 0),
      Dec(1, 100, 0), Dec(-1, 100, 0), Dec(1, 0, 0), Dec(1, 1001, 0) }

\* 0.625, 0.72, 0.58, -0.5, 1.5, 0.001 of the tests, and 0.635
LiveToHangingRatios ==
    { Dec(1, 625, 3), Dec(1, 72, 2), Dec(1, 58, 2), Dec(-1, 5, 1),
      Dec(1, 15, 1), Dec(1, 1, 3), Dec(1, 635, 3) }

\* 0.742, 0.718, 0.694
HangingToRetailRatios == { Dec(1, 742, 3), Dec(1, 718, 3), Dec(1, 694, 3) }

\* hanging weights passed directly: 750, 456.25 of the tests, and 701.5
HangingWeights == { Dec(1, 750, 0), Dec(1, 45625, 2), Dec(1, 7015, 1) }

\* 0.85 and 1.23 dollars per pound
CostsPerPound == { Dec(1, 85, 2), Dec(1, 123, 2) }

\* (finalWeight, initialWeight) of the percentage tests
YieldPairs ==
    { << Dec(1, 5565, 1), Dec(1, 1200, 0) >>, << Dec(1, 100, 0), Dec(1, 100, 0) >>,
      << Dec(1, 0, 0), Dec(1, 100, 0) >> }

\* a call of fn on the Numbers of x and y has returned; live is the live
\* weight the chain of calls started from
Returned(fn, live, x, y, str, result) ==
    [ pc |-> "returned", fn |-> fn, live |-> live, x |-> x, y |-> y,
      str |-> str, result |-> result ]

Calc_calculateHangingWeight ==
    /\ calc.pc = "idle"
    /\ \E liveWeight \in LiveWeights, ratio \in LiveToHangingRatios :
        calc' = Returned("calculateHangingWeight", liveWeight, liveWeight, ratio,
                    toFixed2(NumberMul(NumberOf(liveWeight), NumberOf(ratio))),
                    calculateHangingWeight(NumberOf(liveWeight), NumberOf(ratio)))
    /\ UNCHANGED <<organizations, members, customers, records, species, req, limits, seen, env, pos>>

\* the weights a following call takes as hangingWeight: the hanging weight
\* just computed, or one given directly
HangingWeightArgs ==
    IF calc.pc = "idle" THEN HangingWeights
    ELSE IF calc.fn = "calculateHangingWeight" THEN { DecOfFixed2(calc.str) }
    ELSE { }

Calc_calculateRetailWeight ==
    /\ \E hangingWeight \in HangingWeightArgs, ratio \in HangingToRetailRatios :
        calc' = Returned("calculateRetailWeight",
                    IF calc.pc = "idle" THEN hangingWeight ELSE calc.live,
                    hangingWeight, ratio,
                    toFixed2(NumberMul(NumberOf(hangingWeight), NumberOf(ratio))),
                    calculateRetailWeight(NumberOf(hangingWeight), NumberOf(ratio)))
    /\ UNCHANGED <<organizations, members, customers, records, species, req, limits, seen, env, pos>>

Calc_calculateProcessingCost ==
    /\ \E hangingWeight \in HangingWeightArgs, costPerPound \in CostsPerPound :
        calc' = Returned("calculateProcessingCost",
                    IF calc.pc = "idle" THEN hangingWeight ELSE calc.live,
                    hangingWeight, costPerPound,
                    toFixed2(NumberMul(NumberOf(hangingWeight), NumberOf(costPerPound))),
                    calculateProcessingCost(NumberOf(hangingWeight), NumberOf(costPerPound)))
    /\ UNCHANGED <<organizations, members, customers, records, species, req, limits, seen, env, pos>>

\* the (finalWeight, initialWeight) pairs: the retail weight just computed
\* against the live weight of its chain, or a pair given directly
YieldArgs ==
    IF calc.pc = "idle" THEN YieldPairs
    ELSE IF calc.fn = "calculateRetailWeight" /\ calc.live.s = 0
         THEN { << DecOfFixed2(calc.str), calc.live >> }
    ELSE { }

Calc_calculateYieldPercentage ==
    /\ \E pair \in YieldArgs :
        LET quotient == NumberMul(NumberDiv(NumberOf(pair[1]), NumberOf(pair[2])),
                                  NumberOf(Dec(1, 100, 0)))
        IN  calc' = Returned("calculateYieldPercentage", pair[2], pair[1], pair[2],
                        toFixed2(quotient),
                        calculateYieldPercentage(NumberOf(pair[1]), NumberOf(pair[2])))
    /\ UNCHANGED <<organizations, members, customers, records, species, req, limits, seen, env, pos>>

\* The four calculator functions applied to the values of the tests, alone
\* and in the chain live weight -> hanging weight -> retail weight -> yield.
NextCalc ==
    \/ Calc_calculateHangingWeight
    \/ Calc_calculateRetailWeight
    \/ Calc_calculateProcessingCost
    \/ Calc_calculateYieldPercentage

SpecCalc == Init /\ [][NextCalc]_vars

\* ------------------------------------------------------------ the POS modal
\* the principal using the modal and the organizationId prop
PosUser == "alice"

PosOrganization == "org1"

\* rows of /api/inventory offered in the item select, retailPrice in cents
InventoryItems ==
    { [ id |-> "ribeye", retailPrice |-> 1200 ], [ id |-> "chuck", retailPrice |-> 500 ] }

\* quantities typed into the quantity field
Quantities == { 1, 2 }

\* defaultValues of useForm
DefaultValues ==
    [ customerId |-> "", items |-> << >>, subtotal |-> 0, taxAmount |-> 0, total |-> 0 ]

RECURSIVE SumLineTotals(_)
SumLineTotals(items) ==
    IF items = << >> THEN 0 ELSE Head(items).lineTotal + SumLineTotals(Tail(items))

\* saleItems.map(item => ({ inventoryItemId, description, quantity, unitPrice, lineTotal }))
FormItems(saleItems) ==
    [ i \in 1..Len(saleItems) |->
        [ inventoryItemId |-> saleItems[i].inventoryItemId,
          quantity |-> saleItems[i].quantity,
          unitPrice |-> saleItems[i].unitPrice,
          lineTotal |-> saleItems[i].lineTotal ] ]

\* calculateTotals of the render whose saleItems are given: the form values
\* after its four form.setValue calls
calculateTotals(form, saleItems) ==
    [ form EXCEPT !.subtotal = SumLineTotals(saleItems),
                  !.taxAmount = 0,
                  !.total = SumLineTotals(saleItems) + 0,
                  !.items = FormItems(saleItems) ]

\* the modal is mounted and shows its form
PosOpen == pos.pc = "open"

\* the parent mounts POSModal: useState([]), useForm(defaultValues), and the
\* first render calls calculateTotals()
Pos_mount ==
    /\ pos.pc = "closed"
    /\ pos' = [ pc |-> "open", saleItems |-> << >>, added |-> 0,
                form |-> calculateTotals(DefaultValues, << >>),
                timers |-> { }, data |-> DefaultValues, next |-> 0 ]
    /\ UNCHANGED <<organizations, members, customers, records, species, req, limits, seen, env, calc>>

\* the customer select: field.onChange(value)
Pos_selectCustomer ==
    /\ PosOpen
    /\ pos.form.customerId = ""
    /\ pos' = [ pos EXCEPT !.form.customerId = "customer1" ]
    /\ UNCHANGED <<organizations, members, customers, records, species, req, limits, seen, env, calc>>

\* addItemToSale of the current render: setSaleItems([...saleItems, newItem]),
\* setTimeout(calculateTotals, 100) with the calculateTotals of this render,
\* then the re-render the state change causes, which calls calculateTotals()
Pos_addItemToSale ==
    /\ PosOpen
    /\ pos.added < MaxAdded
    /\ Cardinality(pos.timers) < MaxTimers \/ pos.saleItems \in pos.timers
    /\ \E item \in InventoryItems, quantity \in Quantities :
        LET newItem == [ id |-> pos.added + 1,
                         inventoryItemId |-> item.id,
                         quantity |-> quantity,
                         unitPrice |-> item.retailPrice,
                         lineTotal |-> quantity * item.retailPrice ]
            items == Append(pos.saleItems, newItem)
        IN  pos' = [ pos EXCEPT !.saleItems = items,
                                !.added = @ + 1,
                                !.timers = @ \cup { pos.saleItems },
                                !.form = calculateTotals(@, items) ]
    /\ UNCHANGED <<organizations, members, customers, records, species, req, limits, seen, env, calc>>

\* removeItemFromSale(itemId) of the current render, and the re-render
Pos_removeItemFromSale ==
    /\ PosOpen
    /\ Cardinality(pos.timers) < MaxTimers \/ pos.saleItems \in pos.timers
    /\ \E k \in 1..Len(pos.saleItems) :
        LET items == SelectSeq(pos.saleItems, LAMBDA item : item.id # pos.saleItems[k].id)
        IN  pos' = [ pos EXCEPT !.saleItems = items,
                                !.timers = @ \cup { pos.saleItems },
                                !.form = calculateTotals(@, items) ]
    /\ UNCHANGED <<organizations, members, customers, records, species, req, limits, seen, env, calc>>

\* a timeout set by addItemToSale or removeItemFromSale runs: calculateTotals
\* of the render that set it, whose saleItems are those of before the change
Pos_timeout ==
    /\ pos.pc # "closed"
    /\ \E captured \in pos.timers :
        pos' = [ pos EXCEPT !.timers = @ \ { captured },
                            !.form = calculateTotals(@, captured) ]
    /\ UNCHANGED <<organizations, members, customers, records, species, req, limits, seen, env, calc>>

\* the component renders again (a query resolves, the quantity is typed):
\* line 241 calls calculateTotals() with the current saleItems
Pos_render ==
    /\ PosOpen
    /\ pos.form # calculateTotals(pos.form, pos.saleItems)
    /\ pos' = [ pos EXCEPT !.form = calculateTotals(@, pos.saleItems) ]
    /\ UNCHANGED <<organizations, members, customers, records, species, req, limits, seen, env, calc>>

\* "Process Sale": form.handleSubmit(onSubmit) validates the form values
\* against saleSchema and calls onSubmit(data); the button is disabled and
\* onSubmit returns while saleItems is empty; createSaleMutation.mutate(data)
\* starts mutationFn, which sends POST /api/invoices
Pos_onSubmit ==
    /\ PosOpen
    /\ pos.form.customerId # ""
    /\ Len(pos.saleItems) # 0
    /\ CanReceive
    /\ pos' = [ pos EXCEPT !.pc = "creatingInvoice", !.data = pos.form ]
    /\ req' = Begin("POST /api/invoices", PosUser, PosOrganization, 0, "getUserRole")
    /\ UNCHANGED <<organizations, members, customers, records, species, limits, seen, env, calc>>

\* const invoiceResponse = await apiRequest("POST", "/api/invoices", ...):
\* apiRequest throws unless the response is ok, and onError shows the toast
Pos_invoiceResponse ==
    /\ pos.pc = "creatingInvoice"
    /\ req.pc = "done"
    /\ pos' = IF req.status = 200
              THEN [ pos EXCEPT !.pc = "creatingItems", !.next = 1 ]
              ELSE [ pos EXCEPT !.pc = "failed" ]
    /\ UNCHANGED <<organizations, members, customers, records, species, req, limits, seen, env, calc>>

\* await apiRequest("POST", "/api/invoice-items", itemData) for the next item
\* of data.items: registerRoutes has no such route and nothing calls
\* storage.createInvoiceItem, so no row is written whatever is answered; the
\* request is answered ok or not (or fails to be sent), and not ok ends the
\* mutation in onError
Pos_postInvoiceItem ==
    /\ pos.pc = "creatingItems"
    /\ pos.next <= Len(pos.data.items)
    /\ \E ok \in BOOLEAN :
        pos' = IF ok THEN [ pos EXCEPT !.next = @ + 1 ]
               ELSE [ pos EXCEPT !.pc = "failed" ]
    /\ UNCHANGED <<organizations, members, customers, records, species, req, limits, seen, env, calc>>

\* the loop is over: return invoice; onSuccess: setSaleItems([]),
\* form.reset(), onClose()
Pos_onSuccess ==
    /\ pos.pc = "creatingItems"
    /\ pos.next > Len(pos.data.items)
    /\ pos' = [ pos EXCEPT !.pc = "succeeded", !.saleItems = << >>,
                           !.form = DefaultValues ]
    /\ UNCHANGED <<organizations, members, customers, records, species, req, limits, seen, env, calc>>

\* PosUser is the owner of PosOrganization, as after POST /api/organizations
InitPos ==
    /\ organizations = { PosOrganization }
    /\ members = << [ userId |-> PosUser, organizationId |-> PosOrganization,
                      role |-> "owner", isActive |-> TRUE ] >>
    /\ customers = << >>
    /\ records = << >>
    /\ species = 0
    /\ req = Idle
    /\ limits = [ apiRateLimiter |-> NoHits, adminRateLimiter |-> NoHits ]
    /\ seen = [ apiRateLimiter |-> NoneSeen, adminRateLimiter |-> NoneSeen ]
    /\ env = Null
    /\ calc = NoCalculation
    /\ pos = PosClosed

\* The POS modal, the POST /api/invoices handler it calls, and the store
\* failing under it.
NextPos ==
    \/ Pos_mount
    \/ Pos_selectCustomer
    \/ Pos_addItemToSale
    \/ Pos_removeItemFromSale
    \/ Pos_timeout
    \/ Pos_render
    \/ Pos_onSubmit
    \/ PostInvoices_getUserRole
    \/ PostInvoices_createInvoice
    \/ StoreCallThrows
    \/ Pos_invoiceResponse
    \/ Pos_postInvoiceItem
    \/ Pos_onSuccess

SpecPos == InitPos /\ [][NextPos]_vars

\* ================================================================ properties
\* the membership rows of (u, o), active or not
MembershipRows(u, o) ==
    { i \in 1..Len(members) :
        members[i].userId = u /\ members[i].organizationId = o }

\* the roles of the active membership rows of (u, o)
ActiveRolesOf(u, o) ==
    { members[i].role : i \in { j \in MembershipRows(u, o) : members[j].isActive } }

\* the organization a request is evaluated against: the path parameter, the
\* body's organizationId at creation, the stored organizationId of the
\* customer for PUT and DELETE by id
TargetOrg ==
    IF req.route \in CustomerByIdRoutes
    THEN customers[req.customerId].organizationId
    ELSE req.orgId

OrgScoped == req.route \in ReadRoutes \cup WriteRoutes

\* this step is the handler's membership lookup, and the lookup returned
LookupReturns ==
    /\ req.pc = "getUserRole"
    /\ req'.calls = Append(req.calls, "getUserRole")
    /\ req'.failedAt = Null

Denied(r, msg) == r.pc = "done" /\ r.status = 403 /\ r.message = msg

NoBusinessCall(r) == \A k \in 1..Len(r.calls) : r.calls[k] \notin BusinessCalls

NoBusinessWrite(r) == \A k \in 1..Len(r.calls) : r.calls[k] \notin BusinessWrites

C1_Step ==
    ( /\ req.route \in ReadRoutes \cup CreateRoutes
      /\ LookupReturns
      /\ MembershipRows(req.userId, req.orgId) = {} )
    => ( /\ Denied(req', AccessDenied)
         /\ NoBusinessCall(req')
         /\ business' = business )

\* C1: a principal with no membership row for the organization of an
\* organization-scoped read or create request is answered 403 "Access denied"
\* by the lookup step (when the lookup returns), and the handler makes no
\* business-record call and changes no business row.
C1_NoMembershipDenied == [][C1_Step]_vars

\* C1 witness: a create request against an existing organization that has
\* a member, sent by a principal with no row there, was answered 403
C1_Witness ==
    /\ req.pc = "done" /\ req.status = 403
    /\ req.route \in CreateRoutes
    /\ req.orgId \in organizations
    /\ MembershipRows(req.userId, req.orgId) = {}
    /\ \E i \in 1..Len(members) :
         members[i].organizationId = req.orgId /\ members[i].isActive

WithoutInactive(m) == SelectSeq(m, LAMBDA row : row.isActive)

C2_Lookup ==
    \A u \in Users, o \in OrgIds :
        /\ getUserRole(members, u, o) = getUserRole(WithoutInactive(members), u, o)
        /\ ActiveRolesOf(u, o) = {} => getUserRole(members, u, o) = { Null }
        /\ OrgsOfRows(members, getUserOrganizations(members, organizations, u))
             = OrgsOfRows(WithoutInactive(members),
                    getUserOrganizations(WithoutInactive(members), organizations, u))

C2_Step ==
    ( /\ OrgScoped
      /\ LookupReturns
      /\ MembershipRows(req.userId, TargetOrg) # {}
      /\ ActiveRolesOf(req.userId, TargetOrg) = {} )
    => ( /\ Denied(req', AccessDenied)
         /\ NoBusinessWrite(req')
         /\ business' = business )

C2_SpeciesStep ==
    ( /\ req.route = "POST /api/species"
      /\ req.pc = "getUserOrganizations"
      /\ req'.calls = Append(req.calls, "getUserOrganizations")
      /\ req'.failedAt = Null
      /\ \A o \in OrgIds : ActiveRolesOf(req.userId, o) = {} )
    => ( /\ Denied(req', SpeciesAccessDenied)
         /\ business' = business )

\* C2: an inactive membership row counts as no row: getUserRole and
\* getUserOrganizations return what they return on the table without its
\* inactive rows (null when no active row matches), and a request whose
\* principal has only inactive rows in the target organization gets the 403
\* of a non-member, whatever role the inactive rows carry.
C2_InactiveIsNoMembership == [](C2_Lookup) /\ [][C2_Step /\ C2_SpeciesStep]_vars

\* C2 witness: a write request was answered 403 while the principal holds an
\* inactive owner row in the target organization
C2_Witness ==
    /\ req.pc = "done" /\ req.status = 403
    /\ req.route \in CreateRoutes
    /\ \E i \in MembershipRows(req.userId, req.orgId) :
         members[i].role = "owner" /\ ~members[i].isActive

WriteRoles == {"owner", "admin", "editor"}
AdminRoles == {"owner", "admin"}

\* the store call a write route makes once it is allowed
WriteCall(route) ==
    CASE route = "PUT /api/customers/:id" -> "updateCustomer"
      [] route = "DELETE /api/customers/:id" -> "deleteCustomer"
      [] OTHER -> CreateCall(route)

\* the organization the customer of a by-id request had when getCustomer read it
StoredOrg(r) == r.existing[1].organizationId

C3_Step ==
    ( /\ OrgScoped
      /\ LookupReturns
      /\ ActiveRolesOf(req.userId, TargetOrg) = {} )
    => ( /\ Denied(req', AccessDenied)
         /\ NoBusinessWrite(req')
         /\ business' = business )

C3_SpeciesStep ==
    ( /\ req.route = "POST /api/species"
      /\ LookupReturns
      /\ req'.pc = "createSpecies" )
    => \/ req.hasAdminRole
       \/ \E o \in OrgIds : ActiveRolesOf(req.userId, o) \cap AdminRoles # {}

C4_Step ==
    ( /\ req.route \in CreateRoutes
      /\ LookupReturns
      /\ ActiveRolesOf(req.userId, req.orgId) = {} )
    => ( /\ Denied(req', AccessDenied)
         /\ req'.calls = << "getUserRole" >>
         /\ customers' = customers
         /\ records' = records )

C4_Insert ==
    ( Len(customers') > Len(customers) \/ Len(records') > Len(records) )
    => ( /\ req.route \in CreateRoutes
         /\ req.pc = CreateCall(req.route)
         /\ req.calls = << "getUserRole" >>
         /\ req'.status = 200 )

C4_Denied ==
    ( req.route \in CreateRoutes /\ req.status = 403 )
    => ( /\ req.message = AccessDenied
         /\ \A k \in 1..Len(req.calls) : req.calls[k] # CreateCall(req.route) )

\* C4: a create request naming an organization in which the principal has no
\* active membership is answered 403 "Access denied" by the lookup step,
\* before any row is written: a denied request never calls createX, and a
\* row is inserted only by the create call of a request whose lookup let it
\* pass.
C4_CreateRejectedBeforeWrite == [](C4_Denied) /\ [][C4_Step /\ C4_Insert]_vars

\* C4 witness: the active owner of one organization was denied the creation
\* of a customer or processing record in another
C4_Witness ==
    /\ req.pc = "done" /\ req.status = 403
    /\ req.route \in {"POST /api/customers", "POST /api/processing-records"}
    /\ ActiveRolesOf(req.userId, req.orgId) = {}
    /\ \E o \in OrgIds \ {req.orgId} : "owner" \in ActiveRolesOf(req.userId, o)

C5_Step ==
    ( req.route \in WriteRoutes /\ LookupReturns )
    => LET roles == ActiveRolesOf(req.userId, TargetOrg)
       IN  /\ ( roles # {} /\ roles \subseteq WriteRoles )
                => ( req'.pc = WriteCall(req.route) /\ req'.status = 0 )
           /\ roles \cap WriteRoles = {}
                => ( Denied(req', AccessDenied) /\ business' = business )

C5_Write ==
    ( customers' # customers \/ records' # records )
    => ( /\ req.route \in WriteRoutes
         /\ req.pc = WriteCall(req.route)
         /\ req'.status = 200 )

\* C5: a write request (create customer, processing record, inventory item,
\* invoice, cut instruction; update and delete customer) passes the role
\* check when the principal's active role in the target organization is
\* owner, admin or editor, and is answered 403 with the store unchanged
\* when it is viewer (or anything else); rows change only in the write call
\* of a request that passed.
C5_WriteRoles == [][C5_Step /\ C5_Write]_vars

\* C5 witness: an active viewer of the customer's organization was denied
\* the update or delete of the customer
C5_Witness ==
    /\ req.pc = "done" /\ req.status = 403
    /\ req.route \in CustomerByIdRoutes
    /\ req.existing # << >>
    /\ customers[req.customerId].isActive
    /\ ActiveRolesOf(req.userId, StoredOrg(req)) = {"viewer"}

\* this step is one lookup of POST /api/species for the organization o
SpeciesLookupOf(o) ==
    /\ req.route = "POST /api/species"
    /\ LookupReturns
    /\ \E k \in 1..Len(req.pending) :
         req.pending[k] = o /\ req'.pending = RemoveAt(req.pending, k)

C6_Step ==
    \A o \in OrgIds :
        SpeciesLookupOf(o) =>
            LET roles == ActiveRolesOf(req.userId, o)
                last == Len(req.pending) = 1
            IN  /\ ( roles # {} /\ roles \subseteq AdminRoles ) => req'.hasAdminRole
                /\ roles \cap AdminRoles = {} => req'.hasAdminRole = req.hasAdminRole
                /\ ( last /\ req'.hasAdminRole )
                      => ( req'.pc = "createSpecies" /\ req'.status = 0 )
                /\ ( last /\ ~req'.hasAdminRole )
                      => ( Denied(req', SpeciesAccessDenied) /\ species' = species )
                /\ ~last => req'.pc = "getUserRole"

C6_Create ==
    species' # species
    => ( /\ req.route = "POST /api/species"
         /\ req.pc = "createSpecies"
         /\ req.hasAdminRole
         /\ req'.status = 200 )

C6_Denied ==
    ( req.route = "POST /api/species" /\ req.status = 403 )
    => ( /\ ~req.hasAdminRole
         /\ \A k \in 1..Len(req.calls) : req.calls[k] # "createSpecies" )

\* C6: POST /api/species goes on to createSpecies when a lookup found the
\* principal owner or admin, and is answered 403 when every lookup found
\* editor, viewer or nothing; a species row is created only by a request
\* that passed, and a denied request never calls createSpecies.
C6_AdminWrite == [](C6_Denied) /\ [][C6_Step /\ C6_Create]_vars

\* C6 witness: an active editor was denied the creation of a species
C6_Witness ==
    /\ req.pc = "done" /\ req.status = 403
    /\ req.route = "POST /api/species"
    /\ Len(req.calls) > 1
    /\ \E o \in OrgIds : ActiveRolesOf(req.userId, o) = {"editor"}
    /\ \A o \in OrgIds : ActiveRolesOf(req.userId, o) \subseteq {"editor", "viewer"}

C7_Step ==
    ( /\ req.route \in ReadRoutes
      /\ LookupReturns
      /\ ActiveRolesOf(req.userId, req.orgId) # {}
      /\ ActiveRolesOf(req.userId, req.orgId) \subseteq Roles )
    => ( req'.pc = ReadCall(req.route) /\ req'.status = 0 )

C7_Read ==
    ( /\ req.route \in ReadRoutes
      /\ req.pc = ReadCall(req.route)
      /\ req'.calls = Append(req.calls, ReadCall(req.route))
      /\ req'.failedAt = Null )
    => ( req'.pc = "done" /\ req'.status = 200 )

\* C7: a read request by a principal whose active role in the organization
\* is owner, admin, editor or viewer passes the role check, and the read it
\* goes on to is answered 200 when the store call returns.
C7_ReadRoles == [][C7_Step /\ C7_Read]_vars

\* C7 witness: an active viewer read the dashboard of the organization
C7_Witness ==
    /\ req.pc = "done" /\ req.status = 200
    /\ req.route = "GET /api/dashboard/:orgId"
    /\ ActiveRolesOf(req.userId, req.orgId) = {"viewer"}

C8_Step ==
    ( req.route \in CustomerByIdRoutes /\ LookupReturns )
    => LET roles == ActiveRolesOf(req.userId, customers[req.customerId].organizationId)
       IN  /\ roles \cap WriteRoles = {}
                => ( Denied(req', AccessDenied) /\ customers' = customers )
           /\ ( roles # {} /\ roles \subseteq WriteRoles )
                => ( req'.pc = WriteCall(req.route) /\ req'.status = 0 )

C8_Denied ==
    ( req.route \in CustomerByIdRoutes /\ req.status = 403 )
    => ( /\ req.existing # << >>
         /\ customers[req.customerId] = req.existing[1]
         /\ NoBusinessWrite(req) )

\* C8: update and delete of a customer by id are decided by the principal's
\* role in the organization stored on the customer row, whatever the request
\* names: without a write role there the request is answered 403 and the
\* customer is as getCustomer read it; with one it goes on to the write.
C8_StoredOrganizationDecides == [](C8_Denied) /\ [][C8_Step]_vars

\* C8 witness: a viewer of the customer's organization was denied an update
\* whose body names another organization, of which the principal is owner
C8_Witness ==
    /\ req.pc = "done" /\ req.status = 403
    /\ req.route = "PUT /api/customers/:id"
    /\ req.existing # << >>
    /\ ActiveRolesOf(req.userId, StoredOrg(req)) = {"viewer"}
    /\ req.orgId \in OrgIds \ {StoredOrg(req)}
    /\ ActiveRolesOf(req.userId, req.orgId) = {"owner"}

Lookups == {"getUserRole", "getUserOrganizations"}

C9_Step ==
    ( req.pc \in Lookups /\ req'.failedAt = req.pc )
    => ( /\ req'.pc = "done"
         /\ req'.status = 500
         /\ req'.message = FailureMessage(req.route)
         /\ req'.calls = Append(req.calls, req.pc)
         /\ business' = business )

C9_Failed ==
    req.failedAt \in Lookups
    => ( /\ req.pc = "done"
         /\ req.status = 500
         /\ NoBusinessWrite(req)
         /\ req.calls[Len(req.calls)] = req.failedAt )

\* C9: when the membership lookup of a request throws, the request is
\* answered 500 with the route's failure message, the failed lookup is the
\* handler's last store call, and no business row changes.
C9_FailClosed == [](C9_Failed) /\ [][C9_Step]_vars

\* C9 witness: the lookup of a create request by an active owner of the
\* organization threw, and the request was answered 500 with nothing created
C9_Witness ==
    /\ req.pc = "done" /\ req.status = 500
    /\ req.route \in CreateRoutes
    /\ req.failedAt = "getUserRole"
    /\ ActiveRolesOf(req.userId, req.orgId) = {"owner"}
    /\ Rows = 0

\* the response body of a request answered 403
DeniedBody(route) ==
    IF route = "POST /api/species" THEN SpeciesAccessDenied ELSE AccessDenied

\* C10: the 403 of a write or admin-write route is the same response for a
\* principal with no active membership and for a member whose role is not
\* allowed: status and body are fixed by the route alone.
C10_DenialsIndistinguishable ==
    ( /\ req.pc = "done" /\ req.status = 403
      /\ req.route \in WriteRoutes \cup {"POST /api/species"} )
    => req.message = DeniedBody(req.route)

\* C10 witness: a member with role viewer and no other membership was
\* denied the delete of a customer of the organization
C10_Witness ==
    /\ req.pc = "done" /\ req.status = 403
    /\ req.route = "DELETE /api/customers/:id"
    /\ req.existing # << >>
    /\ ActiveRolesOf(req.userId, StoredOrg(req)) = {"viewer"}

C11_Step ==
    ( /\ req.route \in ReadRoutes
      /\ LookupReturns
      /\ ActiveRolesOf(req.userId, req.orgId) = {} )
    => ( /\ req'.pc = "done"
         /\ req'.status = 403
         /\ req'.message = AccessDenied
         /\ req'.calls = << "getUserRole" >> )

C11_NotFoundStep ==
    ( req.status # 404 /\ req'.status = 404 /\ req'.route \in ReadRoutes )
    => ( /\ req.route = "GET /api/organizations/:id"
         /\ req.pc = "getOrganization"
         /\ req.calls = << "getUserRole" >>
         /\ req.orgId \notin organizations )

C11_NotFound ==
    ( req.route \in ReadRoutes /\ req.status = 404 )
    => ( /\ req.route = "GET /api/organizations/:id"
         /\ req.calls = << "getUserRole", "getOrganization" >>
         /\ req.message = "Organization not found" )

\* C11: a principal with no active membership gets the same answer from
\* every organization-scoped read, whether the organization id names a row
\* of organizations or none: 403 "Access denied" after the one lookup, with
\* no call that reads the organization.  404 "Organization not found" is
\* answered only by getOrganization, which runs after the check has passed.
C11_ExistenceNotObservable ==
    [](C11_NotFound) /\ [][C11_Step /\ C11_NotFoundStep]_vars

\* C11 witness: the owner of one organization asked for an organization id
\* that names no row and was answered 403
C11_Witness ==
    /\ req.pc = "done" /\ req.status = 403 /\ req.message = AccessDenied
    /\ req.route = "GET /api/organizations/:id"
    /\ req.orgId \notin organizations
    /\ \E o \in organizations : "owner" \in ActiveRolesOf(req.userId, o)

\* ---------------------------------------------------------------- C12
\* the body of the request fails the schema of its route
FailsValidation(r) ==
    \/ r.route = "POST /api/organizations" /\ ~insertOrganizationSchema(r.body)
    \/ r.route = "POST /api/species" /\ ~insertSpeciesSchema(r.body)

\* C12: an authenticated, not rate-limited POST /api/organizations or POST
\* /api/species whose body fails schema validation makes no store call and is
\* answered 400.
C12_InvalidInputIs400 ==
    (req.pc # "idle" /\ req.route \in {"POST /api/organizations", "POST /api/species"}
       /\ FailsValidation(req)) =>
        /\ req.calls = << >>
        /\ (req.pc = "done" /\ req.status \notin {401, 429}) => req.status = 400

\* C13 as claimed: in every state reached through createOrganization,
\* addOrganizationMember and POST /api/organizations, each (userId,
\* organizationId) pair has at most one membership row with isActive = true,
\* and getUserRole has one possible result for it.
C13_AtMostOneActiveMembership ==
    \A u \in Users, o \in OrgIds :
        /\ Cardinality({ i \in MembershipRows(u, o) : members[i].isActive }) <= 1
        /\ Cardinality(getUserRole(members, u, o)) = 1

\* C14 as claimed: once a POST /api/organizations request that inserted an
\* organization row has finished, with 200 or with an error response, the
\* creating principal holds an active membership with role owner in it.
C14_CreatorBecomesOwner ==
    ( /\ req.route = "POST /api/organizations"
      /\ req.pc = "done"
      /\ req.orgId \in organizations )
    => \E i \in MembershipRows(req.userId, req.orgId) :
         members[i].role = "owner" /\ members[i].isActive

\* (u, o) has membership rows and all of them are deactivated
Deactivated(u, o) ==
    MembershipRows(u, o) # {} /\ ActiveRolesOf(u, o) = {}

C15_Step ==
    ( OrgScoped /\ LookupReturns )
    => /\ ( req.route \in WriteRoutes /\ ActiveRolesOf(req.userId, TargetOrg) = {"editor"} )
            => ( req'.pc = WriteCall(req.route) /\ req'.status = 0 )
       /\ Deactivated(req.userId, TargetOrg)
            => ( Denied(req', AccessDenied) /\ business' = business )

\* this step is the last lookup of POST /api/species, after which it decides
SpeciesDecision ==
    /\ req.route = "POST /api/species"
    /\ LookupReturns
    /\ Len(req.pending) = 1

C15_SpeciesStep ==
    \A o \in OrgIds :
        ( SpeciesLookupOf(o) /\ ActiveRolesOf(req.userId, o) \subseteq {"editor"} )
        => /\ req'.hasAdminRole = req.hasAdminRole
           /\ ( SpeciesDecision /\ ~req.hasAdminRole )
                => ( Denied(req', SpeciesAccessDenied) /\ species' = species )

C15_NothingStale ==
    /\ \A u \in Users, o \in OrgIds : Cardinality(MembershipRows(u, o)) <= 1
    /\ req.hasAdminRole
         => \E o \in OrgIds : ActiveRolesOf(req.userId, o) \cap AdminRoles # {}

C15_SpeciesAsClaimed ==
    ( /\ SpeciesDecision
      /\ C15_NothingStale
      /\ \E o \in OrgIds :
           \/ ActiveRolesOf(req.userId, o) = {"editor"}
           \/ Deactivated(req.userId, o) )
    => Denied(req', SpeciesAccessDenied)

ListRoutes == ReadRoutes \ { "GET /api/organizations/:id", "GET /api/dashboard/:orgId" }

\* every row of the sequence rows belongs to organization o
AllOf(rows, o) == \A k \in 1..Len(rows) : rows[k].organizationId = o

\* every row a read returned, or counted, belongs to organization o
ResultOf(r, o) ==
    /\ r.route \in ListRoutes => AllOf(r.result, o)
    /\ r.route = "GET /api/dashboard/:orgId"
         => /\ AllOf(r.result.totalAnimals, o)
            /\ AllOf(r.result.revenue, o)
            /\ AllOf(r.result.averageYield, o)
            /\ AllOf(r.result.activeCustomers, o)
    /\ r.route = "GET /api/organizations/:id" => r.result = << o >>

C16_Lookup ==
    ( /\ req.route \in ReadRoutes
      /\ LookupReturns
      /\ req'.pc # "done" )
    => ( /\ ActiveRolesOf(req.userId, req.orgId) # {}
         /\ req'.pc = ReadCall(req.route)
         /\ req'.result = << >> )

C16_Read ==
    ( req.route \in ReadRoutes /\ req.pc # "done" /\ req'.status = 200 )
    => ( /\ req.pc = ReadCall(req.route)
         /\ req.calls = << "getUserRole" >>
         /\ req'.orgId = req.orgId
         /\ ResultOf(req', req.orgId) )

C16_Returned ==
    req.route \in ReadRoutes
    => IF req.status = 200 THEN ResultOf(req, req.orgId) ELSE req.result = << >>

\* C16: the rows a list read returns for orgId, and the rows the dashboard
\* metrics of orgId are counted, summed and averaged over, all have
\* organizationId = orgId; a read runs only after the lookup found the
\* principal an active member of orgId, and a request answered anything but
\* 200 carries no rows.
C16_ReadsScoped == [](C16_Returned) /\ [][C16_Lookup /\ C16_Read]_vars

\* C16 witness: a member of one organization listed its customers and got
\* none back, while another organization holds an active customer
C16_Witness ==
    /\ req.pc = "done" /\ req.status = 200
    /\ req.route = "GET /api/customers/:orgId"
    /\ req.result = << >>
    /\ ActiveRolesOf(req.userId, req.orgId) # {}
    /\ \E k \in 1..Len(customers) :
         customers[k].organizationId # req.orgId /\ customers[k].isActive

\* ---------------------------------------------------------------- C17
\* the requests of the window that reached the species limiter
ReachedLimiter(ip) ==
    seen.adminRateLimiter[ip].handled + seen.adminRateLimiter[ip].limited

\* in every window and for every client: at most AdminMax requests passed
\* the limiter, and if more than AdminMax reached it one was answered 429
C17_Window ==
    \A ip \in Clients :
        /\ seen.adminRateLimiter[ip].handled <= AdminMax
        /\ ReachedLimiter(ip) > AdminMax => seen.adminRateLimiter[ip].limited >= 1

\* a request that reaches the limiter after AdminMax others of its client
\* in the window is answered 429 there, before any store call
C17_Step ==
    (/\ req.pc = "adminRateLimiter"
     /\ req' # req
     /\ ReachedLimiter(req.ip) >= AdminMax)
        => /\ req'.pc = "done"
           /\ req'.status = 429
           /\ req'.message = AdminLimitMessage
           /\ req'.calls = << >>

\* C17 (amended): of the POST /api/species requests of one client that reach
\* the species limiter inside one window, at most 10 pass it towards the
\* creation handler; every later one is answered 429, so of more than 10 such
\* requests at least one is.
C17_SpeciesCreationLimited == [](C17_Window) /\ [][C17_Step]_vars

\* C17 witness: a client's eleventh request of the window was answered 429
\* after ten passed the limiter and a species was created
C17_Witness ==
    /\ req.pc = "done" /\ req.status = 429 /\ req.message = AdminLimitMessage
    /\ seen.adminRateLimiter[req.ip].handled = AdminMax
    /\ seen.adminRateLimiter[req.ip].limited >= 1
    /\ species >= 1

\* C17 as claimed: once a client has sent more than 10 POST /api/species
\* requests inside one window and all are answered, one was answered 429
C17_AnyElevenSent ==
    \A ip \in Clients :
        (CanReceive /\ seen.adminRateLimiter[ip].sent > AdminMax) =>
            \/ seen.adminRateLimiter[ip].limited >= 1
            \/ seen.apiRateLimiter[ip].limited >= 1

\* ---------------------------------------------------------------- C18
\* C18: once a client has sent ApiBurst requests to GET /api/species within
\* one window of the API limiter and all are answered, at least one of them
\* was answered 429.
C18_BurstIsLimited ==
    \A ip \in Clients :
        (CanReceive /\ seen.apiRateLimiter[ip].sent >= ApiBurst) =>
            seen.apiRateLimiter[ip].limited >= 1

\* ---------------------------------------------------------------- C19
RECURSIVE StringsOf(_)
\* the string values of a JSON value, at any depth
StringsOf(obj) ==
    CASE obj.t = "string" -> { obj.v }
      [] obj.t = "array" -> UNION { StringsOf(obj.v[i]) : i \in 1..Len(obj.v) }
      [] obj.t = "object" -> UNION { StringsOf(obj.v[key]) : key \in DOMAIN obj.v }
      [] OTHER -> {}

\* s has the substring "<script>", in any case of letters
ContainsScriptTag(s) ==
    \E i \in 1..Len(s) : s[i] = "<script>" \/ (s[i] = "<scr" /\ At(s, i + 1) = "ipt>")

\* s has the substring "javascript:", in any case of letters
ContainsJavascript(s) ==
    \E i \in 1..Len(s) : s[i] = "java" /\ At(s, i + 1) = "script:"

\* C19: once sanitizeInput has run on a request, no string of its body or
\* query, at any depth, contains "<script>" or "javascript:".
C19_SanitizedIsClean ==
    req.pc \notin {"idle", "sanitizeInput"} =>
        \A s \in StringsOf(req.body) \cup StringsOf(req.query) :
            ~ContainsScriptTag(s) /\ ~ContainsJavascript(s)

\* ---------------------------------------------------------------- C20
\* the messages that contain "Invalid"
InvalidMessages ==
    { "Invalid request content", "Invalid query parameters", "Invalid request format" }

\* C20: a request whose body has one of the four injection payloads in a
\* string field gets no further than sqlInjectionProtection (it reaches no
\* limiter, no authentication and no handler) and is answered 400 with a
\* message containing "Invalid".
C20_InjectionBlocked ==
    (req.pc # "idle" /\ StringsOf(req.body) \cap InjectionPayloads # {}) =>
        /\ req.pc \in {"sanitizeInput", "sqlInjectionProtection", "done"}
        /\ req.calls = << >>
        /\ req.pc = "done" => req.status = 400 /\ req.message \in InvalidMessages

\* ---------------------------------------------------------------- C21
\* the request was answered by the global error handler
AnsweredByErrorHandler(r) == r.pc = "done" /\ r.error.stack # Null

\* the fields of a response body
Fields(body) == DOMAIN body

\* C21: in production the global error handler answers 500 with the message
\* "An internal server error occurred" and a body that has no stack and
\* carries neither the error's message nor its stack; outside production the
\* body carries the error's message (the fixed one if it is empty), its stack
\* and the path.
C21_NoLeakInProduction ==
    AnsweredByErrorHandler(req) =>
        /\ req.status = 500
        /\ env = "production" =>
            /\ req.message = InternalErrorMessage
            /\ req.result.message = InternalErrorMessage
            /\ Fields(req.result) = { "message", "requestId" }
            /\ \A f \in Fields(req.result) :
                    req.result[f] \notin { req.error.message, req.error.stack }
        /\ env # "production" =>
            /\ Fields(req.result) = { "message", "stack", "path" }
            /\ req.result.message = OrElse(req.error.message, InternalErrorMessage)
            /\ req.result.stack = req.error.stack
            /\ req.result.path = req.route

\* C21 witness: in production an error with a message of its own was
\* answered by the error handler
C21_Witness ==
    /\ AnsweredByErrorHandler(req)
    /\ env = "production"
    /\ req.error.message # ""
    /\ req.result.requestId = "rid-1"

\* ---------------------------------------------------------------- C23
\* the membership reads a request has made so far
MembershipReads(r) ==
    SelectSeq(r.calls, LAMBDA call : call \in { "getUserRole", "getUserOrganizations" })

\* C23 as claimed: no request makes more than one membership read, so no
\* allow/deny outcome combines reads of the membership table made at two
\* different times.
C23_OneMembershipRead == Len(MembershipReads(req)) <= 1

\* the principal of the request holds no active owner, admin or editor
\* membership in the organization the request names
NoSufficientMembership(r) == ActiveRolesOf(r.userId, r.orgId) \cap WriteRoles = {}

\* the create call of a create route returns (it does not throw)
CreateReturns ==
    /\ req.route \in CreateRoutes
    /\ req.pc = CreateCall(req.route)
    /\ req'.pc = "done"
    /\ req'.status # 500

C24_Step ==
    ( CreateReturns /\ NoSufficientMembership(req) )
    => ( /\ req'.status = 200
         /\ members' = members
         /\ IF req.route = "POST /api/customers"
            THEN /\ Len(customers') = Len(customers) + 1
                 /\ customers'[Len(customers')].organizationId = req.orgId
            ELSE /\ Len(records') = Len(records) + 1
                 /\ records'[Len(records')].organizationId = req.orgId )

\* C24: a create handler does not look the membership up again when it
\* writes: once getUserRole has returned a write-capable role, the insert
\* happens with status 200 even when the membership has been deactivated or
\* downgraded to viewer in between, so a row of an organization is written
\* by a principal with no sufficient active membership at that moment.
C24_NoRevalidationAtWrite == [][C24_Step]_vars

\* a create request has just written a row of an organization in which its
\* principal holds no sufficient active membership
C24_Witness ==
    /\ req.route \in CreateRoutes
    /\ req.pc = "done" /\ req.status = 200
    /\ req.calls = << "getUserRole", CreateCall(req.route) >>
    /\ NoSufficientMembership(req)
    /\ IF req.route = "POST /api/customers"
       THEN customers # <<>> /\ customers[Len(customers)].organizationId = req.orgId
       ELSE records # <<>> /\ records[Len(records)].organizationId = req.orgId

\* C25: a successful PUT /api/customers/:id leaves the organizationId of the
\* customer as it was, whatever the accepted body carries, an organizationId
\* of another organization included.
C25_UpdateKeepsTenant ==
    [][ ( /\ req.route = "PUT /api/customers/:id"
          /\ req.pc = "updateCustomer"
          /\ req'.pc = "done" /\ req'.status = 200 )
        => customers'[req.customerId].organizationId
               = customers[req.customerId].organizationId ]_vars

\* getCustomer of a by-id request returns (it does not throw)
C26_ExistenceStep ==
    ( /\ req.route \in CustomerByIdRoutes
      /\ req.pc = "getCustomer"
      /\ req' # req
      /\ req'.status # 500 )
    => IF req.customerId \in 1..Len(customers)
       THEN req'.pc = "getUserRole" /\ req'.calls = << "getCustomer" >>
       ELSE /\ req'.pc = "done" /\ req'.status = 404
            /\ req'.message = "Customer not found"
            /\ req'.calls = << "getCustomer" >>

\* the role lookup of a by-id request returns for a principal with no active
\* membership in the organization of the customer
C26_RoleStep ==
    ( /\ req.route \in CustomerByIdRoutes
      /\ LookupReturns
      /\ ActiveRolesOf(req.userId, StoredOrg(req)) = {} )
    => ( /\ Denied(req', AccessDenied)
         /\ req'.calls = << "getCustomer", "getUserRole" >> )

C26_Answer ==
    ( req.route \in CustomerByIdRoutes /\ req.pc = "done" )
    => ( /\ req.status = 404 => req.calls = << "getCustomer" >> /\ req.existing = << >>
         /\ req.status = 403 => req.calls = << "getCustomer", "getUserRole" >>
                                    /\ req.existing # << >> )

\* C26: in PUT and DELETE /api/customers/:id the existence check comes before
\* the role check: a customer id that names no row is answered 404 with no
\* role lookup made, an id that names a row of an organization the principal
\* is no member of is answered 403 after the lookup, so the two answers tell
\* a non-member whether the id exists.
C26_ExistenceBeforeRole ==
    [](C26_Answer) /\ [][C26_ExistenceStep /\ C26_RoleStep]_vars

\* C26 witness: a principal with no membership row in the organization of an
\* existing customer was answered 403 by PUT, while a customer id one above
\* the last row would have been answered 404
C26_Witness ==
    /\ req.route = "PUT /api/customers/:id"
    /\ req.pc = "done" /\ req.status = 403
    /\ req.existing # << >>
    /\ MembershipRows(req.userId, StoredOrg(req)) = {}
    /\ getCustomer(customers, Len(customers) + 1) = << >>

\* role strings that are none of the four documented ones and not empty
UnknownRoles == { role \in RoleStrings : role \notin Roles /\ role # "" }

\* the one role lookup of an organization-scoped request returns while the
\* principal's active membership carries an undocumented role string
C27_UnknownRoleStep ==
    ( /\ OrgScoped
      /\ LookupReturns
      /\ ActiveRolesOf(req.userId, TargetOrg) # {}
      /\ ActiveRolesOf(req.userId, TargetOrg) \subseteq UnknownRoles )
    => IF req.route \in ReadRoutes
       THEN req'.pc = ReadCall(req.route) /\ req'.status # 403
       ELSE Denied(req', AccessDenied) /\ business' = business

\* the same with the empty role string: denied like no membership at all
C27_EmptyRoleStep ==
    ( /\ OrgScoped
      /\ LookupReturns
      /\ ActiveRolesOf(req.userId, TargetOrg) = {""} )
    => ( /\ Denied(req', AccessDenied)
         /\ NoBusinessWrite(req')
         /\ req.route \in ReadRoutes => NoBusinessCall(req')
         /\ business' = business )

\* the last lookup of POST /api/species returns while none of the principal's
\* active roles is owner or admin
C27_SpeciesStep ==
    ( /\ req.route = "POST /api/species"
      /\ LookupReturns
      /\ Len(req.pending) = 1
      /\ ~req.hasAdminRole
      /\ \A o \in OrgIds : ActiveRolesOf(req.userId, o) \cap AdminRoles = {} )
    => Denied(req', SpeciesAccessDenied) /\ species' = species

\* C27: a membership whose role string is none of owner, admin, editor,
\* viewer is denied every write-class and admin-write request and allowed
\* every read-class request (the read routes test only that the role is not
\* empty); the empty role string is treated as no membership.
C27_UnknownRoleReadsOnly ==
    [][C27_UnknownRoleStep /\ C27_EmptyRoleStep /\ C27_SpeciesStep]_vars

\* C27 witness: a member whose role is "guest" has been answered a read
\* request with 200
C27_Witness ==
    /\ req.route \in ReadRoutes
    /\ req.pc = "done" /\ req.status = 200
    /\ ActiveRolesOf(req.userId, req.orgId) = {"guest"}

\* deleteCustomer of an allowed DELETE /api/customers/:id returns
C28_DeleteStep ==
    ( /\ req.route = "DELETE /api/customers/:id"
      /\ req.pc = "deleteCustomer"
      /\ req'.pc = "done" /\ req'.status = 200 )
    => LET id == req.customerId
           o == customers[id].organizationId
       IN  /\ Len(customers') = Len(customers)
           /\ customers'[id].isActive = FALSE
           /\ customers'[id].organizationId = o
           /\ \A k \in 1..Len(customers) : k # id => customers'[k] = customers[k]
           /\ getCustomer(customers', id) = << customers'[id] >>
           /\ getCustomers(customers', o) = getCustomers(RemoveAt(customers, id), o)
           /\ getDashboardMetrics(customers', records', o).activeCustomers
                = getDashboardMetrics(RemoveAt(customers, id), records, o).activeCustomers

\* getCustomer of a by-id request returns for the id of a deactivated customer
C28_FoundStep ==
    ( /\ req.route \in CustomerByIdRoutes
      /\ req.pc = "getCustomer"
      /\ req' # req /\ req'.status # 500
      /\ req.customerId \in 1..Len(customers)
      /\ customers[req.customerId].isActive = FALSE )
    => ( /\ req'.pc = "getUserRole"
         /\ req'.existing = << customers[req.customerId] >> )

\* once the role check has passed, the write call answers 200
C28_WriteStep ==
    ( /\ req.route \in CustomerByIdRoutes
      /\ req.pc = WriteCall(req.route)
      /\ req'.pc = "done" /\ req'.status # 500 )
    => req'.status = 200

C28_Found ==
    ( /\ req.route \in CustomerByIdRoutes
      /\ req.pc = "done" /\ req.status = 404 )
    => req.customerId \notin 1..Len(customers)

\* C28: deleting a customer is a soft delete: the row stays with isActive =
\* false and its organizationId, it leaves the result of getCustomers and the
\* activeCustomers of the dashboard, and getCustomer(id) still returns it, so
\* a repeated DELETE or a later PUT by an authorized principal is answered
\* 200, never 404.
C28_SoftDelete ==
    [](C28_Found) /\ [][C28_DeleteStep /\ C28_FoundStep /\ C28_WriteStep]_vars

\* C28 witness: a DELETE of a customer that was already deactivated has been
\* answered 200 and the row is still there
C28_Witness ==
    /\ req.route = "DELETE /api/customers/:id"
    /\ req.pc = "done" /\ req.status = 200
    /\ req.existing # << >> /\ req.existing[1].isActive = FALSE
    /\ customers[req.customerId].isActive = FALSE
    /\ getCustomers(customers, customers[req.customerId].organizationId) = << >>

\* ---------------------------------------------------------------- C22
Pow10(k) == 10^k

\* the hundredths nearest to num / den (den > 0), a tie rounded up or to even
NearestHundredths(num, den) ==
    LET q == num \div den
        rem == num % den
    IN  IF 2 * rem > den THEN { q + 1 }
        ELSE IF 2 * rem < den THEN { q }
        ELSE { q + 1, IF q % 2 = 0 THEN q ELSE q + 1 }

\* the Numbers of sign * c / 100 for c in cents
NumbersOfHundredths(sign, cents) ==
    { NumberOfDecimal(IF c = 0 THEN 1 ELSE sign, BigOfInt(c), 2) : c \in cents }

\* x * y in decimal arithmetic, rounded to two decimals
DecimalProduct2(x, y) ==
    NumbersOfHundredths(x.sign * y.sign,
        IF x.s + y.s >= 2
        THEN NearestHundredths(x.n * y.n, Pow10(x.s + y.s - 2))
        ELSE { x.n * y.n * Pow10(2 - x.s - y.s) })

\* x / y * 100 in decimal arithmetic, rounded to two decimals (y.s <= x.s + 4)
DecimalPercentage2(x, y) ==
    NumbersOfHundredths(x.sign * y.sign,
        NearestHundredths(x.n * Pow10(y.s + 4 - x.s), y.n))

\* C22: the yield arithmetic is fixed-point to two decimals: the hanging
\* weight, the retail weight and the processing cost are the product of their
\* arguments rounded to two decimals, the yield percentage is final / initial
\* * 100 rounded to two decimals, and a chain rounds at every stage.
C22_FixedPoint ==
    calc.pc = "returned" =>
        IF calc.fn = "calculateYieldPercentage"
        THEN calc.y.n # 0 => calc.result \in DecimalPercentage2(calc.x, calc.y)
        ELSE calc.result \in DecimalProduct2(calc.x, calc.y)

\* ---------------------------------------------------------------- C29
\* the form values a submit hands to the mutation are those of the sale on
\* screen
C29_Step ==
    ( pos.pc = "open" /\ pos'.pc = "creatingInvoice" )
    => ( /\ pos'.data.items = FormItems(pos.saleItems)
         /\ pos'.data.subtotal = SumLineTotals(pos.saleItems)
         /\ pos'.data.taxAmount = 0
         /\ pos'.data.total = pos'.data.subtotal + pos'.data.taxAmount )

\* C29: whenever a sale is submitted from the POS modal, the form values
\* handed to the mutation match the sale on screen: items are the saleItems,
\* subtotal is the sum of their lineTotal, taxAmount is 0 and total is
\* subtotal + taxAmount, for every interleaving of addItemToSale,
\* removeItemFromSale, the delayed calculateTotals callbacks, re-renders and
\* the submit.
C29_SubmittedMatchesScreen == [][C29_Step]_vars

\* ---------------------------------------------------------------- C30
\* rows of the store the sale of the modal has written
InvoicesPersisted == SelectSeq(records, LAMBDA row : row.table = "invoices")

InvoiceItemsPersisted == SelectSeq(records, LAMBDA row : row.table = "invoiceItems")

\* C30: processing a sale is all-or-nothing: when createSaleMutation has
\* failed, no invoice of it is persisted, and when it has succeeded the
\* persisted invoice has exactly one invoice item per item of the sale.
C30_AllOrNothing ==
    /\ pos.pc = "failed" => InvoicesPersisted = << >>
    /\ pos.pc = "succeeded" =>
          /\ Len(InvoicesPersisted) = 1
          /\ Len(InvoiceItemsPersisted) = Len(pos.data.items)

====
